---- MODULE Spec2Model ----
(***************************************************************************)
(* Paillier partially homomorphic encryption (phe/paillier.py): key        *)
(* generation and the persisted key table, public/private key operations,  *)
(* and the ciphertext types EncryptedNumber and EncryptedVector.           *)
(*                                                                         *)
(* Numbers are exact integers.  Key sizes are scaled down: the keys used   *)
(* for arithmetic are the ones generate_keys returns for                   *)
(* n_length <= MaxBits, that is n = 5*7 (6 bits) and n = 11*13 (8 bits);   *)
(* packed plaintexts use the keys of n_length = MaxPackBits and the        *)
(* concurrent callers those of n_length = MaxGenBits.  mul_mod multiplies  *)
(* residues of n^2 without leaving TLC's integer range.                    *)
(***************************************************************************)
EXTENDS Integers, Sequences, FiniteSets, TLC

VARIABLES
    keys,    \* (public_key, private_key) in use by the caller
    keys2,   \* a second key pair of a different modulus
    x,       \* an EncryptedNumber held by the caller
    y,       \* a second EncryptedNumber held by the caller
    z,       \* the value returned by the last ciphertext operation
    out,     \* the value returned by the last decrypt
    hist,    \* history: the plaintexts and arguments the caller supplied
    table,   \* the file <table_path>/table.pkl
    call,    \* the running generate_paillier_keypair call (pc and locals)
    ret,     \* the value returned by the last generate_paillier_keypair
    tot,     \* the value returned by the last from_totient
    heap,    \* the ciphertext objects alive, by address
    pool,    \* the process pool of a generate_keys call with precompute
    callers  \* concurrent generate_paillier_keypair calls on one table path

vars == <<keys, keys2, x, y, z, out, hist, table, call, ret, tot, heap, pool, callers>>

(***************************************************************************)
(* Bounds of the model                                                     *)
(***************************************************************************)
MaxBits == 8          \* largest n_length of the keys used for arithmetic
MaxGenBits == 10      \* largest n_length asked of generate_paillier_keypair
MaxCalls == 3         \* calls of generate_paillier_keypair in one behaviour
MaxTotientOff == 2    \* from_totient is given totients within this of (p-1)(q-1)
TableSize == 3        \* slots of the blinding table (16384 in the source)
MaxBlind == 5         \* get_random_lt_n draws r from 1..MaxBlind (below n)
MaxPlain == 1         \* plaintexts: |v| <= MaxPlain, and v = +-max_int
MaxScalar == 2        \* plain scalars k with |k| <= MaxScalar
MaxEncExp == 1        \* encrypted EncodedNumbers have exponents -MaxEncExp..0
VecLen == 2           \* length of the encrypted vectors
MaxVecPlain == 1      \* vector elements v with |v| <= MaxVecPlain
MaxExpDrop == 2       \* decrease_exponent_to targets down to e - MaxExpDrop
IntBits == 12         \* width of numpy's int (64 in the build), scaled with n
LaneBits == 2         \* width of a packed lane (32 in the source), scaled with n
MaxPackBits == 12     \* n_length of the keys that hold packed plaintexts
MaxRows == 2          \* sum is given grids of at most MaxRows rows
MaxCols == 3          \* and at most MaxCols columns
HeapSize == 5         \* ciphertext objects alive at once, temporaries included
MaxProcesses == 2     \* worker processes of the pool (the physical core count)
MaxFactor == 7        \* PaillierPrivateKey is constructed from p, q in 1..MaxFactor
FloatBits == 4        \* mantissa bits of a float (53 in the build), scaled with n
WideTableSize == 8    \* slots of a blinding table that reaches past the primes of n

(***************************************************************************)
(* Program constants                                                       *)
(***************************************************************************)
BASE == 16            \* EncodedNumber.BASE
NOISE == 3            \* PaillierPublicKey.__init__ noise=3

(***************************************************************************)
(* phe.util: arbitrary precision number theory                             *)
(***************************************************************************)
NoInverse == -1       \* invert() found no inverse: the call raises
NoRoot == -1          \* isqrt() of a negative number: the call raises

Abs(v) == IF v < 0 THEN -v ELSE v

Min2(a, b) == IF a < b THEN a ELSE b

\* a local name: body(v) with v computed once, as an assignment binds it
With(v, body(_)) == body(v)

RECURSIVE Pow(_, _)
Pow(b, e) == IF e <= 0 THEN 1 ELSE b * Pow(b, e - 1)

mul(a, b) == a * b

mod(a, m) == a % m

\* Python integers are exact: a product of factors above WordMax is formed
\* digit by digit of b (four digits of six bits, moduli below 2^24), so that
\* no intermediate value leaves TLC's integers
WordMax == 46340

\* one digit d of b: the running product r becomes r * 64 + a * d
LongStep(r, a, d, m) == ((r * 64) + (a * d)) % m

LongMulMod(a, b, m) ==
    LongStep(LongStep(LongStep(LongStep(0, a, b \div 262144, m),
                               a, (b \div 4096) % 64, m),
                      a, (b \div 64) % 64, m),
             a, b % 64, m)

mul_mod(a, b, m) ==
    IF Abs(a) <= WordMax /\ Abs(b) <= WordMax THEN (a * b) % m
    ELSE LongMulMod(a % m, b % m, m)

mul_mod_new(a, b, m) == mul_mod(a, b, m)

RECURSIVE powmod(_, _, _)
powmod(b, e, m) ==
    IF e = 0 THEN 1 % m
    ELSE LET h == powmod(b, e \div 2, m)
             s == mul_mod(h, h, m)
         IN  IF e % 2 = 0 THEN s ELSE mul_mod(s, b % m, m)

\* extended Euclid: <<g, u>> with u*a = g (mod m')
RECURSIVE Egcd(_, _)
Egcd(a, b) ==
    IF b = 0 THEN <<a, 1, 0>>
    ELSE LET r == Egcd(b, a % b)
         IN  <<r[1], r[3], r[2] - (a \div b) * r[3]>>

gcd(a, b) == Egcd(a, b)[1]

invert(a, m) ==
    LET r == Egcd(a % m, m)
    IN  IF r[1] = 1 THEN r[2] % m ELSE NoInverse

RECURSIVE isqrtFrom(_, _)
isqrtFrom(v, r) == IF (r + 1) * (r + 1) > v THEN r ELSE isqrtFrom(v, r + 1)

\* isqrt(N): the integer square root; a negative N raises
isqrt(v) == IF v < 0 THEN NoRoot ELSE isqrtFrom(v, 0)

RECURSIVE bit_length(_)
bit_length(v) == IF v = 0 THEN 0 ELSE 1 + bit_length(v \div 2)

IsPrime(v) == v >= 2 /\ \A d \in 2..(v - 1) : d * d > v \/ v % d # 0

\* getprimeover(bits): a prime of exactly the given bit length
PrimesOfBits(bits) == {v \in Pow(2, bits - 1)..(Pow(2, bits) - 1) : IsPrime(v)}

(***************************************************************************)
(* phe.encoding: EncodedNumber for integers                                *)
(***************************************************************************)
NoMaxExponent == 1    \* max_exponent=None (an int has precision exponent 0)

\* EncodedNumber.encode(n, max_int, scalar, max_exponent=...) for an int
encode(n, max_int, scalar, max_exponent) ==
    LET exponent == Min2(max_exponent, 0)
        int_rep  == scalar * Pow(BASE, -exponent)
    IN  IF Abs(int_rep) > max_int
        THEN [tag |-> "ValueError", n |-> n, encoding |-> 0, exponent |-> 0]
        ELSE [tag |-> "EncodedNumber", n |-> n, encoding |-> int_rep % n,
              exponent |-> exponent]

Decoded(tag, mant, exp) == [tag |-> tag, mant |-> mant, exp |-> exp, of |-> "none"]

\* EncodedNumber.decode(): mantissa * BASE^exponent, kept as the exact pair
decode(n, max_int, encoding, exponent) ==
    IF encoding >= n THEN Decoded("ValueError", 0, 0)
    ELSE IF encoding <= max_int THEN Decoded("value", encoding, exponent)
    ELSE IF encoding >= n - max_int THEN Decoded("value", encoding - n, exponent)
    ELSE Decoded("OverflowError", 0, 0)

\* EncodedNumber.decrease_exponent_to(new_exp)
EncodedDecreaseExponentTo(enc, new_exp) ==
    IF new_exp > enc.exponent
    THEN [tag |-> "ValueError", n |-> enc.n, encoding |-> 0, exponent |-> 0]
    ELSE [tag |-> "EncodedNumber", n |-> enc.n,
          encoding |-> (enc.encoding * Pow(BASE, enc.exponent - new_exp)) % enc.n,
          exponent |-> new_exp]

\* m1 * BASE^e1 = m2 * BASE^e2
SameValue(m1, e1, m2, e2) ==
    LET lo == Min2(e1, e2)
    IN  m1 * Pow(BASE, e1 - lo) = m2 * Pow(BASE, e2 - lo)

(***************************************************************************)
(* Keys                                                                    *)
(***************************************************************************)
NoTable == <<>>

PaillierPublicKey(n, r_pow_n_l, n_length) ==
    [n |-> n, g |-> n + 1, nsquare |-> n * n, max_int |-> n \div 3 - 1,
     r_pow_n_l |-> r_pow_n_l, noise |-> NOISE, n_length |-> n_length]

l_function(v, p) == (v - 1) \div p

h_function(g, p, psquare) ==
    invert(l_function(powmod(g, p - 1, psquare), p), p)

NoKey == [tag |-> "none", p |-> 0, q |-> 0, psquare |-> 0, qsquare |-> 0,
          p_inverse |-> 0, hp |-> 0, hq |-> 0, n |-> 0]

KeyError(name) == [NoKey EXCEPT !.tag = name]

\* the fields __init__ computes from self.p = lo and self.q = hi; invert
\* raises when there is no inverse
KeyFields(public_key, lo, hi) ==
    LET key == [tag |-> "PaillierPrivateKey", p |-> lo, q |-> hi,
                psquare |-> lo * lo, qsquare |-> hi * hi,
                p_inverse |-> invert(lo, hi),
                hp |-> h_function(public_key.g, lo, lo * lo),
                hq |-> h_function(public_key.g, hi, hi * hi),
                n |-> public_key.n]
    IN  IF NoInverse \in {key.p_inverse, key.hp, key.hq}
        THEN KeyError("ZeroDivisionError")
        ELSE key

\* __init__ without the exchange of p and q
PaillierPrivateKeyAsGiven(public_key, p, q) ==
    IF p * q # public_key.n THEN KeyError("ValueError")
    ELSE IF p = q THEN KeyError("ValueError")
    ELSE KeyFields(public_key, p, q)

\* PaillierPrivateKey.__init__(public_key, p, q)
PaillierPrivateKey(public_key, p, q) ==
    IF p * q # public_key.n THEN KeyError("ValueError")
    ELSE IF p = q THEN KeyError("ValueError")
    ELSE IF q < p THEN KeyFields(public_key, q, p)
    ELSE KeyFields(public_key, p, q)

\* pow_mod_n2(base, exp, n_length, psquare, qsquare, qsquare_inv)
pow_mod_n2(base, exp, psquare, qsquare, qsquare_inv) ==
    LET x_p == powmod(base, exp, psquare)
        x_q == powmod(base, exp, qsquare)
        c   == (qsquare_inv * (x_p - x_q)) % psquare
    IN  c * qsquare + x_q

\* pool.map(pow_mod_n2_new, range(16384)): slot i+1 holds the result for base i
BlindingTable(p, q) ==
    LET psquare == p * p
        qsquare == q * q
        qsquare_inv == invert(qsquare, psquare)
    IN  [i \in 1..TableSize |->
            pow_mod_n2(i - 1, p * q, psquare, qsquare, qsquare_inv)]


DefaultNLength == 2048   \* PaillierPublicKey.__init__ n_length=2048

\* what generate_keys(n_length, precompute) returns for the sampled p, q
GeneratedKeys(p, q, n_length, precompute) ==
    LET public_key == IF precompute
                      THEN PaillierPublicKey(p * q, BlindingTable(p, q), n_length)
                      ELSE PaillierPublicKey(p * q, NoTable, DefaultNLength)
    IN  [pub |-> public_key, priv |-> PaillierPrivateKey(public_key, p, q)]

\* the loop of generate_keys exits with these (p, q)
SampledPrimes(n_length) ==
    {pq \in PrimesOfBits(n_length \div 2) \X PrimesOfBits(n_length \div 2) :
        pq[1] # pq[2] /\ bit_length(pq[1] * pq[2]) = n_length}

\* key sizes for which getprimeover can return two distinct primes
KeySizes(maxbits) ==
    {L \in 2..maxbits : Cardinality(PrimesOfBits(L \div 2)) >= 2}

KeyPairs ==
    UNION {{GeneratedKeys(pq[1], pq[2], L, pre) :
                pq \in SampledPrimes(L), pre \in BOOLEAN} :
           L \in KeySizes(MaxBits)}

(***************************************************************************)
(* PaillierPublicKey: raw_encrypt, encrypt                                 *)
(***************************************************************************)
\* the shared first half of raw_encrypt and EncryptedNumber._raw_encrypt
NudeCiphertext(n, nsquare, max_int, plaintext) ==
    IF n - max_int <= plaintext /\ plaintext < n
    THEN LET neg_plaintext  == n - plaintext
             neg_ciphertext == mod(mul(n, neg_plaintext) + 1, nsquare)
         IN  invert(neg_ciphertext, nsquare)
    ELSE mod(mul(n, plaintext) + 1, nsquare)

RECURSIVE TableObfuscator(_, _, _)
TableObfuscator(pk, idx, i) ==
    IF i = 0 THEN 1
    ELSE mul_mod(TableObfuscator(pk, idx, i - 1), pk.r_pow_n_l[idx[i] + 1],
                 pk.nsquare)

NoRValue == 0    \* r_value=None; encrypt_encoded takes None and 0 alike

\* raw_encrypt(plaintext, r_value); rnd: the values the random sources
\* return, idx for randint(1, 16383) and r for get_random_lt_n()
raw_encrypt(pk, plaintext, r_value, rnd) ==
    LET nude_ciphertext == NudeCiphertext(pk.n, pk.nsquare, pk.max_int, plaintext)
        obfuscator == IF pk.r_pow_n_l # NoTable
                      THEN TableObfuscator(pk, rnd.idx, pk.noise)
                      ELSE powmod(rnd.r, pk.n, pk.nsquare)
    IN  mul_mod(nude_ciphertext, obfuscator, pk.nsquare)

\* the outcomes of the random draws of one raw_encrypt
Draws(pk) ==
    IF pk.r_pow_n_l # NoTable
    THEN {[idx |-> i, r |-> 0] : i \in [1..NOISE -> 1..(TableSize - 1)]}
    ELSE {[idx |-> <<>>, r |-> r] : r \in 1..Min2(MaxBlind, pk.n - 1)}

NoCipher == [tag |-> "none", n |-> 0, nsquare |-> 0, max_int |-> 0,
             ciphertext |-> 0, exponent |-> 0]

Raise(name) == [NoCipher EXCEPT !.tag = name]

EncryptedNumber(n, nsquare, max_int, ciphertext, exponent) ==
    [tag |-> "EncryptedNumber", n |-> n, nsquare |-> nsquare,
     max_int |-> max_int, ciphertext |-> ciphertext, exponent |-> exponent]

encrypt_encoded(pk, encoding, r_value, rnd) ==
    LET obfuscator == IF r_value = NoRValue THEN 1 ELSE r_value
    IN  EncryptedNumber(pk.n, pk.nsquare, pk.max_int,
                        raw_encrypt(pk, encoding.encoding, obfuscator, rnd),
                        encoding.exponent)

\* encrypt(value, r_value=r_value): value an int, or an EncodedNumber of
\* exponent e
encrypt(pk, value, e, r_value, rnd) ==
    LET encoding == encode(pk.n, pk.max_int, value, NoMaxExponent)
    IN  IF encoding.tag # "EncodedNumber" THEN Raise("ValueError: out of range")
        ELSE encrypt_encoded(pk, [encoding EXCEPT !.exponent = e], r_value, rnd)

(***************************************************************************)
(* PaillierPrivateKey: raw_decrypt, decrypt                                *)
(***************************************************************************)
crt(sk, mp, mq) ==
    LET u == mul_mod_new(mq - mp, sk.p_inverse, sk.q)
    IN  mp + u * sk.p

raw_decrypt(sk, ciphertext) ==
    LET decrypt_to_p == mul_mod(l_function(powmod(ciphertext, sk.p - 1, sk.psquare), sk.p),
                                sk.hp, sk.p)
        decrypt_to_q == mul_mod(l_function(powmod(ciphertext, sk.q - 1, sk.qsquare), sk.q),
                                sk.hq, sk.q)
    IN  crt(sk, decrypt_to_p, decrypt_to_q)

NoOut == [tag |-> "none", mant |-> 0, exp |-> 0, of |-> "none"]

\* decrypt(encrypted_number) = decrypt_encoded(encrypted_number).decode()
decrypt(kp, encrypted_number) ==
    IF kp.pub.n # encrypted_number.n
    THEN Decoded("ValueError: different key", 0, 0)
    ELSE decode(kp.pub.n, kp.pub.max_int,
                raw_decrypt(kp.priv, encrypted_number.ciphertext),
                encrypted_number.exponent)


(***************************************************************************)
(* EncryptedNumber                                                         *)
(***************************************************************************)
IntResult(v) == [tag |-> "int", v |-> v]

IntRaise(name) == [tag |-> name, v |-> 0]

raw_add(self, e_a, e_b) == mul_mod(e_a, e_b, self.nsquare)

raw_mul(self, plaintext) ==
    IF plaintext < 0 \/ plaintext >= self.n
    THEN IntRaise("ValueError: scalar out of bounds")
    ELSE IF self.n - self.max_int <= plaintext
    THEN LET neg_c == invert(self.ciphertext, self.nsquare)
             neg_scalar == self.n - plaintext
         IN  IF neg_c = NoInverse THEN IntRaise("invert: no inverse")
             ELSE IntResult(powmod(neg_c, neg_scalar, self.nsquare))
    ELSE IntResult(powmod(self.ciphertext, plaintext, self.nsquare))

IntOperand(k) == [tag |-> "int", v |-> k]

\* __mul__(self, other): other an EncryptedNumber, an EncodedNumber or an int
MulOfCiphertexts(self, other) ==
    IF other.tag = "EncryptedNumber"
    THEN EncryptedNumber(self.n, self.nsquare, self.max_int,
                         powmod(self.ciphertext, other.ciphertext % self.n, self.nsquare),
                         self.exponent + other.exponent)
    ELSE Raise("TypeError")

Mul(self, other) ==
    IF other.tag = "EncryptedNumber" THEN Raise("NotImplementedError")
    ELSE With(IF other.tag = "EncodedNumber" THEN other
              ELSE encode(self.n, self.max_int, other.v, NoMaxExponent),
              LAMBDA encoding :
                  IF encoding.tag # "EncodedNumber"
                  THEN Raise("ValueError: out of range")
                  ELSE With(raw_mul(self, encoding.encoding),
                            LAMBDA product :
                                IF product.tag # "int" THEN Raise(product.tag)
                                ELSE EncryptedNumber(self.n, self.nsquare, self.max_int,
                                                     product.v,
                                                     self.exponent + encoding.exponent)))

decrease_exponent_to(self, new_exp) ==
    IF new_exp > self.exponent THEN Raise("ValueError: exponent")
    ELSE With(Mul(self, IntOperand(Pow(BASE, self.exponent - new_exp))),
              LAMBDA multiplied :
                  IF multiplied.tag # "EncryptedNumber" THEN multiplied
                  ELSE [multiplied EXCEPT !.exponent = new_exp])

add_encoded(self, encoded) ==
    IF self.n # encoded.n THEN Raise("ValueError: different keys")
    ELSE With(IF self.exponent > encoded.exponent
              THEN decrease_exponent_to(self, encoded.exponent) ELSE self,
              LAMBDA a :
                  IF a.tag # "EncryptedNumber" THEN a
                  ELSE LET b == IF self.exponent < encoded.exponent
                                THEN EncodedDecreaseExponentTo(encoded, self.exponent)
                                ELSE encoded
                           encrypted_scalar ==
                               NudeCiphertext(a.n, a.nsquare, a.max_int, b.encoding)
                           sum_ciphertext == raw_add(a, a.ciphertext, encrypted_scalar)
                       IN  EncryptedNumber(a.n, a.nsquare, a.max_int, sum_ciphertext,
                                           a.exponent))

add_scalar(self, scalar) ==
    LET encoded == encode(self.n, self.max_int, scalar, self.exponent)
    IN  IF encoded.tag # "EncodedNumber" THEN Raise("ValueError: out of range")
        ELSE add_encoded(self, encoded)

add_encrypted_any_key(self, other) ==
    With(IF self.exponent > other.exponent
         THEN decrease_exponent_to(self, other.exponent) ELSE self,
         LAMBDA a :
             IF a.tag # "EncryptedNumber" THEN a
             ELSE With(IF self.exponent < other.exponent
                       THEN decrease_exponent_to(other, self.exponent) ELSE other,
                       LAMBDA b :
                           IF b.tag # "EncryptedNumber" THEN b
                           ELSE EncryptedNumber(a.n, a.nsquare, a.max_int,
                                                raw_add(a, a.ciphertext, b.ciphertext),
                                                a.exponent)))

add_encrypted(self, other) ==
    IF self.n # other.n THEN Raise("ValueError: different keys")
    ELSE With(IF self.exponent > other.exponent
              THEN decrease_exponent_to(self, other.exponent) ELSE self,
              LAMBDA a :
                  IF a.tag # "EncryptedNumber" THEN a
                  ELSE With(IF self.exponent < other.exponent
                            THEN decrease_exponent_to(other, self.exponent) ELSE other,
                            LAMBDA b :
                                IF b.tag # "EncryptedNumber" THEN b
                                ELSE EncryptedNumber(a.n, a.nsquare, a.max_int,
                                                     raw_add(a, a.ciphertext, b.ciphertext),
                                                     a.exponent)))

\* __add__(self, other)
Add(self, other) ==
    IF other.tag = "EncryptedNumber" THEN add_encrypted(self, other)
    ELSE IF other.tag = "EncodedNumber" THEN add_encoded(self, other)
    ELSE add_scalar(self, other.v)

\* __radd__(self, other)
RAdd(self, other) == Add(self, other)


(***************************************************************************)
(* phe.encoding: EncodedVector for integer arrays                          *)
(***************************************************************************)
\* EncodedVector.encode(n, max_int, values, max_exponent=...): one exponent
\* for the whole array
encode_vector(n, max_int, values, max_exponent) ==
    LET exponent == Min2(max_exponent, 0)
        int_rep(v) == v * Pow(BASE, -exponent)
    IN  IF \E i \in 1..Len(values) : Abs(int_rep(values[i])) > max_int
        THEN [tag |-> "ValueError", n |-> n, encoding |-> <<>>, exponent |-> 0]
        ELSE [tag |-> "EncodedVector", n |-> n,
              encoding |-> [i \in 1..Len(values) |-> int_rep(values[i]) % n],
              exponent |-> exponent]

\* EncodedVector.decode(): element-wise
decode_vector(n, max_int, encoding, exponent) ==
    LET d(e) == decode(n, max_int, e, exponent)
        bad  == {i \in 1..Len(encoding) : d(encoding[i]).tag # "value"}
    IN  IF bad # {}
        THEN Decoded(d(encoding[CHOOSE i \in bad : \A j \in bad : i <= j]).tag, <<>>, 0)
        ELSE Decoded("value", [i \in 1..Len(encoding) |-> d(encoding[i]).mant], exponent)

\* EncodedVector.decrease_exponent_to(new_exp)
EncodedVectorDecreaseExponentTo(enc, new_exp) ==
    IF new_exp > enc.exponent
    THEN [tag |-> "ValueError", n |-> enc.n, encoding |-> <<>>, exponent |-> 0]
    ELSE [tag |-> "EncodedVector", n |-> enc.n,
          encoding |-> [i \in 1..Len(enc.encoding) |->
                           (enc.encoding[i] * Pow(BASE, enc.exponent - new_exp)) % enc.n],
          exponent |-> new_exp]

(***************************************************************************)
(* EncryptedVector                                                         *)
(***************************************************************************)
EncryptedVector(n, nsquare, max_int, ciphertext, exponent) ==
    [tag |-> "EncryptedVector", n |-> n, nsquare |-> nsquare,
     max_int |-> max_int, ciphertext |-> ciphertext, exponent |-> exponent]

\* encrypt_new(value): every element is raw_encrypt-ed with its own draws
encrypt_new(pk, value, e, rnds) ==
    LET encoding == encode_vector(pk.n, pk.max_int, value, NoMaxExponent)
    IN  IF encoding.tag # "EncodedVector" THEN Raise("ValueError: out of range")
        ELSE EncryptedVector(pk.n, pk.nsquare, pk.max_int,
                 [i \in 1..Len(value) |-> raw_encrypt(pk, encoding.encoding[i], NoRValue, rnds[i])],
                 e)

\* decrypt_new(cipher_text) = decrypt_encoded_new(cipher_text).decode()
decrypt_new(kp, cipher_text) ==
    IF kp.pub.n # cipher_text.n
    THEN Decoded("ValueError: different key", <<>>, 0)
    ELSE decode_vector(kp.pub.n, kp.pub.max_int,
                       [i \in 1..Len(cipher_text.ciphertext) |->
                           raw_decrypt(kp.priv, cipher_text.ciphertext[i])],
                       cipher_text.exponent)

raw_mul_2(self, ciphertext, plaintext) ==
    IF plaintext < 0 \/ plaintext >= self.n
    THEN IntRaise("ValueError: scalar out of bounds")
    ELSE IF self.n - self.max_int <= plaintext
    THEN LET neg_c == invert(ciphertext, self.nsquare)
             neg_scalar == self.n - plaintext
         IN  IF neg_c = NoInverse THEN IntRaise("invert: no inverse")
             ELSE IntResult(powmod(neg_c, neg_scalar, self.nsquare))
    ELSE IntResult(powmod(ciphertext, plaintext, self.nsquare))

\* the elements of a list comprehension, or the first exception raised in it
Collect(results) ==
    LET bad == {i \in 1..Len(results) : results[i].tag # "int"}
    IN  IF bad # {}
        THEN IntRaise(results[CHOOSE i \in bad : \A j \in bad : i <= j].tag)
        ELSE [tag |-> "int", v |-> [i \in 1..Len(results) |-> results[i].v]]

SeqOperand(ks) == [tag |-> "sequence", v |-> ks]

\* EncryptedVector.__mul__(self, other): other an EncryptedVector, a scalar
\* or an array
VecMul(self, other) ==
    IF other.tag = "EncryptedVector" THEN Raise("NotImplementedError")
    ELSE IF other.tag = "int"
    THEN LET encoding == encode_vector(self.n, self.max_int, <<other.v>>, NoMaxExponent)
         IN  IF encoding.tag # "EncodedVector" THEN Raise("ValueError: out of range")
             ELSE LET product == Collect([i \in 1..Len(self.ciphertext) |->
                                     raw_mul_2(self, self.ciphertext[i], encoding.encoding[1])])
                  IN  IF product.tag # "int" THEN Raise(product.tag)
                      ELSE EncryptedVector(self.n, self.nsquare, self.max_int, product.v,
                                           self.exponent + encoding.exponent)
    ELSE IF Len(other.v) = Len(self.ciphertext)
    THEN LET encodings == encode_vector(self.n, self.max_int, other.v, NoMaxExponent)
         IN  IF encodings.tag # "EncodedVector" THEN Raise("ValueError: out of range")
             ELSE LET product == Collect([i \in 1..Len(self.ciphertext) |->
                                     raw_mul_2(self, self.ciphertext[i], encodings.encoding[i])])
                  IN  IF product.tag # "int" THEN Raise(product.tag)
                      ELSE EncryptedVector(self.n, self.nsquare, self.max_int, product.v,
                                           self.exponent + encodings.exponent)
    ELSE Raise("TypeError: Not at same shape")

vec_decrease_exponent_to(self, new_exp) ==
    IF new_exp > self.exponent THEN Raise("ValueError: exponent")
    ELSE LET multiplied == VecMul(self, IntOperand(Pow(BASE, self.exponent - new_exp)))
         IN  IF multiplied.tag # "EncryptedVector" THEN multiplied
             ELSE [multiplied EXCEPT !.exponent = new_exp]

vec_raw_add(self, e_a, e_b) == mul_mod(e_a, e_b, self.nsquare)

\* EncryptedVector._raw_encrypt(plaintextvector)
vec_raw_encrypt(self, plaintextvector) ==
    [i \in 1..Len(plaintextvector) |->
        NudeCiphertext(self.n, self.nsquare, self.max_int, plaintextvector[i])]

\* a[i] for i in range(count): IndexError when a is shorter
Zip(self, a, b, count) ==
    IF count > Len(a) \/ count > Len(b) THEN Raise("IndexError")
    ELSE EncryptedVector(self.n, self.nsquare, self.max_int,
                         [i \in 1..count |-> vec_raw_add(self, a[i], b[i])],
                         self.exponent)

\* numpy's int: IntBits wide, signed
IntMax == Pow(2, IntBits - 1) - 1

\* ndarray.astype(int) of np.array(values), values non-negative Python ints:
\* an array holding a value of IntBits bits or more holds objects, and the
\* conversion raises OverflowError; an array whose largest value needs the
\* sign bit is unsigned, and the conversion wraps
astype_int(values) ==
    IF \E i \in 1..Len(values) : values[i] >= Pow(2, IntBits)
    THEN IntRaise("OverflowError")
    ELSE [tag |-> "int",
          v |-> [i \in 1..Len(values) |->
                    IF values[i] > IntMax THEN values[i] - Pow(2, IntBits)
                    ELSE values[i]]]

\* _add_encoded without the conversion of the residues
vec_add_encoded_exact(self, encoded) ==
    IF self.n # encoded.n THEN Raise("ValueError: different keys")
    ELSE LET a == IF self.exponent > encoded.exponent
                  THEN vec_decrease_exponent_to(self, encoded.exponent) ELSE self
             b == IF self.exponent < encoded.exponent
                  THEN EncodedVectorDecreaseExponentTo(encoded, self.exponent) ELSE encoded
         IN  IF a.tag # "EncryptedVector" THEN a
             ELSE LET encrypted_scalar == vec_raw_encrypt(a, b.encoding)
                  IN  Zip(a, a.ciphertext, encrypted_scalar, Len(encrypted_scalar))

vec_add_encoded(self, encoded) ==
    IF self.n # encoded.n THEN Raise("ValueError: different keys")
    ELSE LET a == IF self.exponent > encoded.exponent
                  THEN vec_decrease_exponent_to(self, encoded.exponent) ELSE self
             b == IF self.exponent < encoded.exponent
                  THEN EncodedVectorDecreaseExponentTo(encoded, self.exponent) ELSE encoded
         IN  IF a.tag # "EncryptedVector" THEN a
             ELSE LET encrypted_scalar == astype_int(vec_raw_encrypt(a, b.encoding))
                  IN  IF encrypted_scalar.tag # "int" THEN Raise(encrypted_scalar.tag)
                      ELSE Zip(a, a.ciphertext, encrypted_scalar.v,
                               Len(encrypted_scalar.v))

vec_add_encrypted(self, other) ==
    IF self.n # other.n THEN Raise("ValueError: different keys")
    ELSE LET a == IF self.exponent > other.exponent
                  THEN vec_decrease_exponent_to(self, other.exponent) ELSE self
             b == IF self.exponent < other.exponent
                  THEN vec_decrease_exponent_to(other, self.exponent) ELSE other
         IN  IF a.tag # "EncryptedVector" THEN a
             ELSE IF b.tag # "EncryptedVector" THEN b
             ELSE Zip(a, a.ciphertext, b.ciphertext, Len(a.ciphertext))

\* EncryptedVector.__add__(self, other) for a vector operand
VecAdd(self, other) ==
    IF other.tag = "EncryptedVector" THEN vec_add_encrypted(self, other)
    ELSE vec_add_encoded(self, other)

(***************************************************************************)
(* The caller's session with ciphertexts: x is encrypted, then either x    *)
(* is decrypted, or a one-operand call is made on x, or y is encrypted     *)
(* and a two-operand call is made on x and y; the result z of the call     *)
(* is decrypted.  Reset starts the next session.                           *)
(***************************************************************************)
NoHist == [vx |-> 0, ex |-> 0, vy |-> 0, ey |-> 0, op |-> "none", k |-> 0,
           by |-> 0, draw |-> 0, with |-> 0]

NoLength == 0   \* no bit length: no table file, or n_len before the first sample

NoFile == [tag |-> "absent", n_length |-> NoLength, n |-> 0, p |-> 0, q |-> 0,
           r_pow_n_l |-> NoTable]

Idle == [pc |-> "idle", n_length |-> NoLength, precompute |-> FALSE, p |-> 0,
         q |-> 0, n |-> 0, n_len |-> NoLength, sampled |-> FALSE,
         retried |-> FALSE, old_length |-> NoLength]

NoKeys == [pub |-> PaillierPublicKey(0, NoTable, NoLength), priv |-> NoKey]

NoRet == [tag |-> "none", pub |-> NoKeys.pub, priv |-> NoKey,
          n_length |-> NoLength, precompute |-> FALSE,
          loaded |-> FALSE, sampled |-> FALSE, retried |-> FALSE,
          computed |-> FALSE, old_length |-> NoLength, calls |-> 0,
          follows |-> "none"]

NoTot == [tag |-> "none", totient |-> 0, priv |-> NoKey]

\* the addresses of ciphertext objects; a free address holds NoCipher
Addrs == 1..HeapSize

EmptyHeap == [a \in Addrs |-> NoCipher]

NoResult == -1    \* a task of the pool has not returned yet

NoProcess == 0    \* no worker process runs the task

\* no pool: generate_keys is not running
NoPool == [pc |-> "idle", p |-> 0, q |-> 0, n_length |-> NoLength,
           task |-> <<>>, on |-> <<>>, result |-> <<>>, r_pow_n_l |-> NoTable]

NoCallers == <<>>    \* no concurrent callers

\* the plaintexts the caller encrypts under a key
Plaintexts(pk) ==
    {v \in (-pk.max_int)..pk.max_int : Abs(v) <= MaxPlain \/ Abs(v) = pk.max_int}

Scalars == (-MaxScalar)..MaxScalar

KeyOf(i) == IF i = 1 THEN keys ELSE keys2

Objects == <<heap, pool, callers>>

Session == <<keys, keys2, Objects>>

KeyGen == <<table, call, ret, tot>>

Init ==
    /\ keys \in KeyPairs
    /\ keys2 \in {kp \in KeyPairs : kp.pub.n # keys.pub.n /\ kp.pub.r_pow_n_l = NoTable}
    /\ x = NoCipher /\ y = NoCipher /\ z = NoCipher
    /\ out = NoOut
    /\ hist = NoHist
    /\ table = NoFile /\ call = Idle /\ ret = NoRet /\ tot = NoTot
    /\ heap = EmptyHeap /\ pool = NoPool /\ callers = NoCallers

EncExps == (-MaxEncExp)..0

\* decrease_exponent_to is asked for the exponent plus one of these
ExpChanges == (-MaxExpDrop)..1

\* the second operand's plaintexts
PlaintextsY == (-MaxPlain)..MaxPlain

VecPlaintexts == [1..VecLen -> (-MaxVecPlain)..MaxVecPlain]

\* the second operand and the elements of a vector are encrypted with the
\* least draw: r = 1, or the table slot of index 1
FirstDraw(pk) ==
    IF pk.r_pow_n_l # NoTable THEN [idx |-> [j \in 1..NOISE |-> 1], r |-> 0]
    ELSE [idx |-> <<>>, r |-> 1]

VecDraws(pk) == [i \in 1..VecLen |-> FirstDraw(pk)]

\* the second operand's vectors
VecPlaintextsY == {[i \in 1..VecLen |-> v] : v \in (-MaxVecPlain)..MaxVecPlain}

Decryptions == {<<1, "x">>, <<1, "z">>, <<2, "x">>}

\* x = public_key.encrypt(v) (an EncodedNumber of exponent e when e # 0)
EncryptX ==
    /\ x.tag = "none"
    /\ \E v \in Plaintexts(keys.pub), e \in EncExps, rnd \in Draws(keys.pub) :
           /\ x' = encrypt(keys.pub, v, e, NoRValue, rnd)
           /\ hist' = [hist EXCEPT !.vx = v, !.ex = e, !.draw = rnd.r]
    /\ UNCHANGED <<y, z, out, Session, KeyGen>>

\* y = public_key.encrypt(v) under either key pair
EncryptY(i) ==
    /\ x.tag = "EncryptedNumber" /\ y.tag = "none" /\ z.tag = "none" /\ out.tag = "none"
    /\ \E v \in PlaintextsY, e \in EncExps, rnd \in {FirstDraw(KeyOf(i).pub)} :
           /\ y' = encrypt(KeyOf(i).pub, v, e, NoRValue, rnd)
           /\ hist' = [hist EXCEPT !.vy = v, !.ey = e]
    /\ UNCHANGED <<x, z, out, Session, KeyGen>>

OperationWith(i, name, k, result) ==
    /\ z.tag = "none" /\ out.tag = "none"
    /\ z' = result
    /\ hist' = [hist EXCEPT !.op = name, !.k = k, !.with = i]
    /\ out' = NoOut
    /\ UNCHANGED <<x, y, Session, KeyGen>>

Operation(name, k, result) == OperationWith(1, name, k, result)

\* z = x + y
AddEncrypted ==
    /\ x.tag = "EncryptedNumber" /\ y.tag = "EncryptedNumber"
    /\ Operation("x + y", 0, Add(x, y))

\* z = x + k
AddScalar(k) ==
    /\ x.tag = "EncryptedNumber" /\ y.tag = "none"
    /\ Operation("x + k", k, Add(x, IntOperand(k)))

\* z = k + x
RAddScalar(k) ==
    /\ x.tag = "EncryptedNumber" /\ y.tag = "none"
    /\ Operation("k + x", k, RAdd(x, IntOperand(k)))

\* z = x + EncodedNumber.encode(n_i, max_int_i, k)
AddEncoded(i, k) ==
    /\ x.tag = "EncryptedNumber" /\ y.tag = "none"
    /\ OperationWith(i, "x + encoded", k,
                 Add(x, encode(KeyOf(i).pub.n, KeyOf(i).pub.max_int, k, NoMaxExponent)))

\* z = x * k
MulScalar(k) ==
    /\ x.tag = "EncryptedNumber" /\ y.tag = "none"
    /\ Operation("x * k", k, Mul(x, IntOperand(k)))

\* z = x * y
MulEncrypted ==
    /\ x.tag = "EncryptedNumber" /\ y.tag = "EncryptedNumber"
    /\ Operation("x * y", 0, Mul(x, y))

\* z = x.decrease_exponent_to(t)
DecreaseExponentTo(t) ==
    /\ x.tag = "EncryptedNumber" /\ y.tag = "none"
    /\ Operation("decrease_exponent_to", t, decrease_exponent_to(x, t))

\* out = private_key_i.decrypt(x) or private_key_i.decrypt(z)
Decrypt(i, which) ==
    /\ out.tag = "none"
    /\ which = "x" => y.tag = "none" /\ z.tag = "none"
    /\ LET c == IF which = "x" THEN x ELSE z
       IN  /\ c.tag = "EncryptedNumber"
           /\ out' = [decrypt(KeyOf(i), c) EXCEPT !.of = which]
    /\ hist' = [hist EXCEPT !.by = i]
    /\ UNCHANGED <<x, y, z, Session, KeyGen>>

\* x = public_key.encrypt_new(vs)
EncryptNewX ==
    /\ x.tag = "none"
    /\ \E vs \in VecPlaintexts, e \in EncExps, rnds \in {VecDraws(keys.pub)} :
           /\ x' = encrypt_new(keys.pub, vs, e, rnds)
           /\ hist' = [hist EXCEPT !.vx = vs, !.ex = e]
    /\ UNCHANGED <<y, z, out, Session, KeyGen>>

\* y = public_key.encrypt_new(vs) under either key pair
EncryptNewY(i) ==
    /\ x.tag = "EncryptedVector" /\ y.tag = "none" /\ z.tag = "none" /\ out.tag = "none"
    /\ \E vs \in VecPlaintextsY, e \in EncExps, rnds \in {VecDraws(KeyOf(i).pub)} :
           /\ y' = encrypt_new(KeyOf(i).pub, vs, e, rnds)
           /\ hist' = [hist EXCEPT !.vy = vs, !.ey = e]
    /\ UNCHANGED <<x, z, out, Session, KeyGen>>

\* z = x + y for vectors
VecAddEncrypted ==
    /\ x.tag = "EncryptedVector" /\ y.tag = "EncryptedVector"
    /\ Operation("x + y", 0, VecAdd(x, y))

\* z = x + EncodedVector.encode(n_i, max_int_i, ks)
VecAddEncoded(i, ks) ==
    /\ x.tag = "EncryptedVector" /\ y.tag = "none"
    /\ OperationWith(i, "x + encoded", ks,
                 VecAdd(x, encode_vector(KeyOf(i).pub.n, KeyOf(i).pub.max_int, ks,
                                         NoMaxExponent)))

\* z = x * k for a vector x
VecMulScalar(k) ==
    /\ x.tag = "EncryptedVector" /\ y.tag = "none"
    /\ Operation("x * k", k, VecMul(x, IntOperand(k)))

\* z = x * y for vectors
VecMulEncrypted ==
    /\ x.tag = "EncryptedVector" /\ y.tag = "EncryptedVector"
    /\ Operation("x * y", 0, VecMul(x, y))

\* z = x.decrease_exponent_to(t) for a vector x
VecDecreaseExponentTo(t) ==
    /\ x.tag = "EncryptedVector" /\ y.tag = "none"
    /\ Operation("decrease_exponent_to", t, vec_decrease_exponent_to(x, t))

\* out = private_key_i.decrypt_new(x) or private_key_i.decrypt_new(z)
DecryptNew(i, which) ==
    /\ out.tag = "none"
    /\ which = "x" => y.tag = "none" /\ z.tag = "none"
    /\ LET c == IF which = "x" THEN x ELSE z
       IN  /\ c.tag = "EncryptedVector"
           /\ out' = [decrypt_new(KeyOf(i), c) EXCEPT !.of = which]
    /\ hist' = [hist EXCEPT !.by = i]
    /\ UNCHANGED <<x, y, z, Session, KeyGen>>

\* the caller drops its ciphertexts
Reset ==
    /\ x.tag # "none"
    /\ x' = NoCipher /\ y' = NoCipher /\ z' = NoCipher
    /\ out' = NoOut /\ hist' = NoHist
    /\ UNCHANGED <<Session, KeyGen>>

Next ==
    \/ EncryptX
    \/ \E i \in {1, 2} : EncryptY(i)
    \/ AddEncrypted
    \/ \E k \in Scalars : AddScalar(k)
    \/ \E k \in Scalars : RAddScalar(k)
    \/ \E i \in {1, 2}, k \in Scalars : AddEncoded(i, k)
    \/ \E k \in Scalars : MulScalar(k)
    \/ MulEncrypted
    \/ \E t \in ExpChanges : DecreaseExponentTo(x.exponent + t)
    \/ \E d \in Decryptions : Decrypt(d[1], d[2])
    \/ EncryptNewX
    \/ \E i \in {1, 2} : EncryptNewY(i)
    \/ VecAddEncrypted
    \/ \E i \in {1, 2}, ks \in VecPlaintextsY : VecAddEncoded(i, ks)
    \/ \E k \in Scalars : VecMulScalar(k)
    \/ VecMulEncrypted
    \/ \E t \in ExpChanges : VecDecreaseExponentTo(x.exponent + t)
    \/ \E d \in Decryptions : DecryptNew(d[1], d[2])
    \/ Reset

Spec == Init /\ [][Next]_vars


(***************************************************************************)
(* Properties of the scalar session                                        *)
(***************************************************************************)
IsNum == x.tag = "EncryptedNumber"

IsVec == x.tag = "EncryptedVector"

\* the ciphertext is a unit mod n^2 (its blinding factor was coprime to n)
Unit(c) == gcd(c.ciphertext, c.n) = 1

IsValue(o, mant, exp) == o.tag = "value" /\ o.mant = mant /\ o.exp = exp

InRange(v) == Abs(v) <= keys.pub.max_int

DecryptedX == out.of = "x" /\ hist.by = 1

DecryptedZ == out.of = "z" /\ hist.by = 1

\* C1: for every generated key pair, every integer v with |v| <= max_int and
\* every blinding drawn by raw_encrypt, decrypt(encrypt(v)) = v.
C1_RoundTrip ==
    IsNum /\ DecryptedX /\ hist.ex = 0 => IsValue(out, hist.vx, 0)

\* the round trip when the blinding factor is coprime to n
C1_RoundTripUnit ==
    IsNum /\ DecryptedX /\ Unit(x) => IsValue(out, hist.vx, hist.ex)


\* C2: for integers a, b with |a|, |b|, |a+b| <= max_int under one key,
\* decrypt(encrypt(a) + encrypt(b)) = a + b, and decrypt(encrypt(a) + b) = a + b
\* for a plain scalar b, also when written b + encrypt(a).
C2_AddHomomorphic ==
    /\ IsNum /\ hist.op = "x + y" /\ y.n = x.n /\ hist.ex = 0 /\ hist.ey = 0
             /\ InRange(hist.vx + hist.vy)
          => /\ z.tag = "EncryptedNumber"
             /\ DecryptedZ => IsValue(out, hist.vx + hist.vy, 0)
    /\ IsNum /\ hist.op \in {"x + k", "k + x"} /\ hist.ex = 0
             /\ InRange(hist.k) /\ InRange(hist.vx + hist.k)
          => /\ z.tag = "EncryptedNumber"
             /\ DecryptedZ => IsValue(out, hist.vx + hist.k, 0)

\* the same for ciphertexts whose blinding factors are coprime to n
C2_AddHomomorphicUnit ==
    (IsNum /\ Unit(x) /\ (y.tag = "EncryptedNumber" => Unit(y))) => C2_AddHomomorphic

\* C3: for integers a, k with |a|, |k|, |a*k| <= max_int,
\* decrypt(encrypt(a) * k) = a * k; for k < 0 the product is the inverse of
\* the ciphertext raised to |k|.
C3_MulHomomorphic ==
    IsNum /\ hist.op = "x * k" /\ hist.ex = 0 /\ InRange(hist.vx * hist.k)
    => /\ z.tag = "EncryptedNumber"
       /\ hist.k < 0 =>
              z.ciphertext = powmod(invert(x.ciphertext, x.nsquare), -hist.k, x.nsquare)
       /\ DecryptedZ => IsValue(out, hist.vx * hist.k, 0)

C3_MulHomomorphicUnit == (IsNum /\ Unit(x)) => C3_MulHomomorphic


\* C4: ciphertext * ciphertext raises the unsupported-operation error for
\* EncryptedNumber and for EncryptedVector, whatever the keys and exponents of
\* the operands, and both operands are left unchanged.
C4_CipherTimesCipher ==
    [][hist'.op = "x * y" =>
           /\ x.tag \in {"EncryptedNumber", "EncryptedVector"} /\ y.tag = x.tag
           /\ z'.tag = "NotImplementedError"
           /\ x' = x /\ y' = y]_vars

\* two vectors under different keys and exponents were multiplied
C4_Witness ==
    /\ hist.op = "x * y" /\ IsVec /\ y.tag = "EncryptedVector"
    /\ y.n # x.n /\ y.exponent # x.exponent
    /\ z.tag = "NotImplementedError"

\* what the first private key decrypts a ciphertext to
DecryptOf(c) == IF c.tag = "EncryptedVector" THEN decrypt_new(keys, c) ELSE decrypt(keys, c)

Mantissas(o) == IF IsVec THEN o.mant ELSE <<o.mant>>

\* every mantissa times BASE^drop is within max_int
RescaledInRange(o, drop) ==
    \A i \in 1..Len(Mantissas(o)) : InRange(Mantissas(o)[i] * Pow(BASE, drop))

SameDecoded(o1, o2) ==
    /\ o1.tag = "value" /\ o2.tag = "value"
    /\ Len(Mantissas(o1)) = Len(Mantissas(o2))
    /\ \A i \in 1..Len(Mantissas(o1)) :
           SameValue(Mantissas(o1)[i], o1.exp, Mantissas(o2)[i], o2.exp)

\* decrease_exponent_to(t) of x gave z: failure for t > e, and for t <= e,
\* where the proviso holds, a ciphertext of exponent t with x's decoded value
DecreasedExponent(proviso) ==
    hist.op = "decrease_exponent_to" =>
        LET t == hist.k
            e == x.exponent
        IN  /\ t > e => z.tag = "ValueError: exponent"
            /\ t <= e /\ DecryptOf(x).tag = "value" /\ proviso =>
                  /\ z.tag = x.tag /\ z.exponent = t
                  /\ out.of = "z" /\ hist.by = 1 => SameDecoded(out, DecryptOf(x))

C5_Rescaled == RescaledInRange(DecryptOf(x), x.exponent - hist.k)

\* C5 as stated: decrease_exponent_to(t) on a ciphertext of exponent e fails
\* with ValueError when t > e; when t <= e and the rescaled encoding is within
\* max_int it returns a new ciphertext of exponent t decrypting to the same
\* decoded value; the ciphertext it is called on is unchanged.
C5_DecreaseExponentStated ==
    /\ []DecreasedExponent(C5_Rescaled)
    /\ [][hist'.op = "decrease_exponent_to" => x' = x]_vars

\* the same where, moreover, the factor BASE^(e-t) is itself within max_int:
\* the factor is encoded before the multiplication, and encoding fails with
\* ValueError when it is larger than max_int
C5_DecreaseExponent ==
    /\ []DecreasedExponent(C5_Rescaled /\ InRange(Pow(BASE, x.exponent - hist.k)))
    /\ [][hist'.op = "decrease_exponent_to" => x' = x]_vars

\* C6: adding an EncryptedNumber or EncodedNumber (EncryptedVector or
\* EncodedVector) of another modulus fails with the key-mismatch error and
\* gives no ciphertext, and so does decrypt / decrypt_new by a private key of
\* another modulus; whatever the exponents.
C6_KeyMismatch ==
    /\ hist.op = "x + y" /\ y.n # x.n => z.tag = "ValueError: different keys"
    /\ hist.op = "x + encoded" /\ KeyOf(hist.with).pub.n # x.n
           => z.tag = "ValueError: different keys"
    /\ out.of # "none" /\ KeyOf(hist.by).pub.n # x.n
           => out.tag = "ValueError: different key"


\* vectors under different keys and exponents were added
C6_Witness ==
    /\ hist.op = "x + y" /\ IsVec /\ y.tag = "EncryptedVector"
    /\ y.n # x.n /\ y.exponent # x.exponent
    /\ z.tag = "ValueError: different keys"

(***************************************************************************)
(* Key generation and the key table: generate_paillier_keypair loads the   *)
(* keys of the table file or runs generate_keys, whose sampling loop is    *)
(* followed step by step; from_totient rebuilds a private key.             *)
(***************************************************************************)
\* what the last call did, for the call that follows it
Kind(r) ==
    IF r.tag = "none" THEN "none"
    ELSE IF r.loaded THEN "load"
    ELSE IF ~r.precompute THEN "generate"
    ELSE IF r.old_length = NoLength THEN "create"
    ELSE "overwrite"

Returned(public_key, private_key, n_length, precompute, old_length, c) ==
    [tag |-> "keys", pub |-> public_key, priv |-> private_key,
     n_length |-> n_length, precompute |-> precompute,
     loaded |-> ~c.sampled, sampled |-> c.sampled, retried |-> c.retried,
     computed |-> c.sampled /\ precompute, old_length |-> old_length,
     calls |-> ret.calls + 1, follows |-> Kind(ret)]

\* generate_paillier_keypair loading the table file whatever length it records
LoadCallAnyLength(n_length, precompute) ==
    /\ call.pc = "idle" /\ ret.calls < MaxCalls
    /\ table.tag = "present"
    /\ LET public_key  == PaillierPublicKey(table.n, table.r_pow_n_l, DefaultNLength)
           private_key == PaillierPrivateKey(public_key, table.p, table.q)
       IN  ret' = Returned(public_key, private_key, n_length, precompute,
                           table.n_length, Idle)
    /\ tot' = NoTot
    /\ UNCHANGED <<table, call, keys, keys2, x, y, z, out, hist, Objects>>

\* generate_paillier_keypair(n_length, precompute): the table file exists and
\* records n_length
LoadCall(n_length, precompute) ==
    /\ call.pc = "idle" /\ ret.calls < MaxCalls
    /\ table.tag = "present" /\ table.n_length = n_length
    /\ LET public_key  == PaillierPublicKey(table.n, table.r_pow_n_l, DefaultNLength)
           private_key == PaillierPrivateKey(public_key, table.p, table.q)
       IN  ret' = Returned(public_key, private_key, n_length, precompute,
                           table.n_length, Idle)
    /\ tot' = NoTot
    /\ UNCHANGED <<table, call, keys, keys2, x, y, z, out, hist, Objects>>

\* generate_paillier_keypair(n_length, precompute): there is no table file, or
\* it records another bit length; generate_keys starts
GenerateCall(n_length, precompute) ==
    /\ call.pc = "idle" /\ ret.calls < MaxCalls
    /\ ~(table.tag = "present" /\ table.n_length = n_length)
    /\ call' = [Idle EXCEPT !.pc = "loop", !.n_length = n_length,
                            !.precompute = precompute,
                            !.old_length = table.n_length]
    /\ tot' = NoTot
    /\ UNCHANGED <<table, ret, keys, keys2, x, y, z, out, hist, Objects>>

\* while n_len == 0
LoopTestOnce ==
    /\ call.pc = "loop"
    /\ call' = [call EXCEPT
                  !.pc = IF call.n_len = NoLength THEN "sample_p" ELSE "finish"]
    /\ UNCHANGED <<table, ret, tot, keys, keys2, x, y, z, out, hist, Objects>>

\* while n_len != n_length
LoopTest ==
    /\ call.pc = "loop"
    /\ call' = [call EXCEPT
                  !.pc = IF call.n_len # call.n_length THEN "sample_p" ELSE "finish",
                  !.retried = call.retried \/ (call.n_len # call.n_length /\ call.sampled)]
    /\ UNCHANGED <<table, ret, tot, keys, keys2, x, y, z, out, hist, Objects>>

\* p = getprimeover(n_length // 2); q = p
SampleP(p) ==
    /\ call.pc = "sample_p"
    /\ call' = [call EXCEPT !.pc = "sample_q", !.p = p, !.q = p, !.sampled = TRUE]
    /\ UNCHANGED <<table, ret, tot, keys, keys2, x, y, z, out, hist, Objects>>

\* while q == p: q = getprimeover(n_length // 2); then n = p * q and n_len
SampleQ(q) ==
    /\ call.pc = "sample_q"
    /\ call' = IF q = call.p THEN [call EXCEPT !.q = q]
               ELSE [call EXCEPT !.pc = "loop", !.q = q, !.n = call.p * q,
                                 !.n_len = bit_length(call.p * q)]
    /\ UNCHANGED <<table, ret, tot, keys, keys2, x, y, z, out, hist, Objects>>

\* generate_keys that never writes the table file
FinishWithoutFile ==
    /\ call.pc = "finish"
    /\ LET generated == GeneratedKeys(call.p, call.q, call.n_length, call.precompute)
       IN  ret' = Returned(generated.pub, generated.priv, call.n_length,
                           call.precompute, call.old_length, call)
    /\ call' = Idle
    /\ UNCHANGED <<table, tot, keys, keys2, x, y, z, out, hist, Objects>>

\* after the loop: the blinding table and the table file when precompute is
\* set, the key objects, and the return to generate_paillier_keypair's caller
Finish ==
    /\ call.pc = "finish"
    /\ LET generated == GeneratedKeys(call.p, call.q, call.n_length, call.precompute)
       IN  /\ ret' = Returned(generated.pub, generated.priv, call.n_length,
                              call.precompute, call.old_length, call)
           /\ table' = IF call.precompute
                       THEN [tag |-> "present", n_length |-> call.n_length,
                             n |-> call.n, p |-> call.p, q |-> call.q,
                             r_pow_n_l |-> generated.pub.r_pow_n_l]
                       ELSE table
    /\ call' = Idle
    /\ UNCHANGED <<tot, keys, keys2, x, y, z, out, hist, Objects>>

\* from_totient taking q = (p+q) // 2
from_totient_halved(public_key, totient) ==
    LET p_plus_q  == public_key.n - totient + 1
        p_minus_q == isqrt(p_plus_q * p_plus_q - public_key.n * 4)
        q == p_plus_q \div 2
        p == p_plus_q - q
    IN  IF p_minus_q = NoRoot THEN KeyError("isqrt: negative")
        ELSE IF p * q # public_key.n THEN KeyError("ValueError")
        ELSE PaillierPrivateKey(public_key, p, q)

\* PaillierPrivateKey.from_totient(public_key, totient)
from_totient(public_key, totient) ==
    LET p_plus_q  == public_key.n - totient + 1
        p_minus_q == isqrt(p_plus_q * p_plus_q - public_key.n * 4)
        q == (p_plus_q - p_minus_q) \div 2
        p == p_plus_q - q
    IN  IF p_minus_q = NoRoot THEN KeyError("isqrt: negative")
        ELSE IF p * q # public_key.n THEN KeyError("ValueError")
        ELSE PaillierPrivateKey(public_key, p, q)

\* tot = PaillierPrivateKey.from_totient(public_key, totient) for the public
\* key returned last
FromTotient(totient) ==
    /\ call.pc = "idle" /\ ret.tag = "keys" /\ tot.tag = "none"
    /\ LET private_key == from_totient(ret.pub, totient)
       IN  tot' = [tag |-> private_key.tag, totient |-> totient, priv |-> private_key]
    /\ UNCHANGED <<table, call, ret, keys, keys2, x, y, z, out, hist, Objects>>

Totient(private_key) == (private_key.p - 1) * (private_key.q - 1)

\* the totients handed to from_totient: around the totient of the key
Totients(private_key) ==
    {t \in (Totient(private_key) - MaxTotientOff)..(Totient(private_key) + MaxTotientOff) :
        t >= 0}

InitKeys ==
    /\ keys = NoKeys /\ keys2 = NoKeys
    /\ x = NoCipher /\ y = NoCipher /\ z = NoCipher
    /\ out = NoOut
    /\ hist = NoHist
    /\ table = NoFile /\ call = Idle /\ ret = NoRet /\ tot = NoTot
    /\ heap = EmptyHeap /\ pool = NoPool /\ callers = NoCallers

NextKeys ==
    \/ \E n_length \in KeySizes(MaxGenBits), precompute \in BOOLEAN :
           LoadCall(n_length, precompute)
    \/ \E n_length \in KeySizes(MaxGenBits), precompute \in BOOLEAN :
           GenerateCall(n_length, precompute)
    \/ LoopTest
    \/ \E p \in PrimesOfBits(call.n_length \div 2) : SampleP(p)
    \/ \E q \in PrimesOfBits(call.n_length \div 2) : SampleQ(q)
    \/ Finish
    \/ \E totient \in Totients(ret.priv) : FromTotient(totient)

SpecKeys == InitKeys /\ [][NextKeys]_vars


(***************************************************************************)
(* Properties of key generation                                            *)
(***************************************************************************)
\* the primes and modulus satisfy generate_keys' exit condition for n_length
ExitCondition(n_length, p, q, n) ==
    /\ bit_length(n) = n_length
    /\ p # q
    /\ IsPrime(p) /\ bit_length(p) = n_length \div 2
    /\ IsPrime(q) /\ bit_length(q) = n_length \div 2
    /\ p * q = n

\* C7: whenever generate_keys(L, ...) returns, n has exactly L bits, the two
\* primes are distinct primes of L/2 bits, and p*q = n for the private key
\* returned; the sampling loop is left only in a state where all of these hold.
C7_GenerateKeys ==
    /\ call.pc = "finish" => ExitCondition(call.n_length, call.p, call.q, call.n)
    /\ ret.tag = "keys" /\ ret.sampled =>
           /\ ret.priv.tag = "PaillierPrivateKey"
           /\ ExitCondition(ret.n_length, ret.priv.p, ret.priv.q, ret.pub.n)

\* generate_keys returned after a retry of the sampling loop
C7_Witness == ret.tag = "keys" /\ ret.sampled /\ ret.retried

\* the prime factorisations n = p*q with p < q
Factorisations(n) ==
    {<<p, n \div p>> : p \in {d \in 2..n : /\ n % d = 0 /\ d < n \div d
                                           /\ IsPrime(d) /\ IsPrime(n \div d)}}

\* C8: for distinct primes p, q with n = p*q, from_totient(public_key(n),
\* (p-1)*(q-1)) returns the private key with those primes, normalized p < q;
\* for a totient whose reconstructed factors do not multiply to n it raises
\* ValueError and returns no key.
C8_FromTotient ==
    tot.tag # "none" =>
        LET n == ret.pub.n
            p_plus_q == n - tot.totient + 1
            root == isqrt(p_plus_q * p_plus_q - 4 * n)
            q == (p_plus_q - root) \div 2
        IN  /\ \A pq \in Factorisations(n) :
                  tot.totient = (pq[1] - 1) * (pq[2] - 1) =>
                      /\ tot.tag = "PaillierPrivateKey"
                      /\ tot.priv.p = pq[1] /\ tot.priv.q = pq[2]
            /\ root # NoRoot /\ q * (p_plus_q - q) # n =>
                  tot.tag = "ValueError" /\ tot.priv.p = NoKey.p

\* from_totient was given the totient of a generated key
C8_Witness ==
    /\ tot.tag = "PaillierPrivateKey" /\ ret.sampled
    /\ tot.totient = Totient(ret.priv)

\* the table file records the bit length, modulus, primes (in either order)
\* and blinding table of the returned keys
TableRecords(r) ==
    /\ table.tag = "present"
    /\ table.n_length = r.n_length
    /\ table.n = r.pub.n
    /\ {table.p, table.q} = {r.priv.p, r.priv.q}
    /\ table.r_pow_n_l = r.pub.r_pow_n_l

\* C9: the first precomputed generate_paillier_keypair(L) with no table file
\* creates the file recording (L, n, p, q, blinding table) of the returned
\* keys; from then on every call with the recorded L returns keys of the same
\* (n, p, q) and blinding table, samples no prime, computes no table and
\* leaves the file unchanged, however often it is repeated.
C9_TableReuse ==
    /\ [](ret.tag = "keys" /\ ret.precompute /\ ret.old_length = NoLength
              => ret.sampled /\ ret.computed /\ TableRecords(ret))
    /\ [][/\ call.pc = "idle" /\ table.tag = "present"
          /\ \/ ret'.calls # ret.calls /\ ret'.n_length = table.n_length
             \/ call'.pc # "idle" /\ call'.n_length = table.n_length
          => /\ call'.pc = "idle" /\ table' = table
             /\ ret'.loaded /\ ~ret'.sampled /\ ~ret'.computed
             /\ TableRecords(ret')
             /\ Kind(ret) \in {"create", "overwrite", "load"} /\ ret.n_length = ret'.n_length
                    => ret'.pub.n = ret.pub.n /\ ret'.priv = ret.priv
                       /\ ret'.pub.r_pow_n_l = ret.pub.r_pow_n_l]_vars

\* a load that follows a load of the same table
C9_Witness ==
    /\ ret.loaded /\ ret.follows = "load" /\ ret.calls = MaxCalls
    /\ TableRecords(ret)

\* the last call was made with a bit length other than the recorded one
DifferentLength(r) ==
    r.tag = "keys" /\ r.old_length # NoLength /\ r.old_length # r.n_length

\* the call that follows with the bit length of the last one
SameLengthCall ==
    /\ call.pc = "idle"
    /\ \/ ret'.calls # ret.calls /\ ret'.n_length = ret.n_length
       \/ call'.pc # "idle" /\ call'.n_length = ret.n_length

\* that call loads the keys returned last
LoadsReturned ==
    /\ call'.pc = "idle" /\ ret'.loaded
    /\ ret'.pub.n = ret.pub.n /\ ret'.priv = ret.priv
    /\ ret'.pub.r_pow_n_l = ret.pub.r_pow_n_l

\* C10 as stated: every call with a bit length other than the recorded one
\* generates fresh keys and overwrites the table with them, and the next call
\* with that bit length loads exactly those keys.
C10_TableOverwriteStated ==
    /\ [](DifferentLength(ret) => ret.sampled /\ ~ret.loaded /\ TableRecords(ret))
    /\ [][DifferentLength(ret) /\ SameLengthCall => LoadsReturned]_vars

\* C10: the same for the calls made with precompute set; without it the
\* fresh keys are returned and the table file is left as it was.
C10_TableOverwrite ==
    /\ [](DifferentLength(ret) /\ ret.precompute
              => ret.sampled /\ ~ret.loaded /\ TableRecords(ret))
    /\ [][DifferentLength(ret) /\ ret.precompute /\ SameLengthCall
              => LoadsReturned]_vars
    /\ [](DifferentLength(ret) /\ ~ret.precompute =>
              /\ ret.sampled /\ table.tag = "present"
              /\ table.n_length = ret.old_length /\ table.n # ret.pub.n)

\* a load that follows an overwriting generation
C10_Witness ==
    /\ ret.loaded /\ ret.follows = "overwrite"
    /\ ret.old_length = ret.n_length /\ TableRecords(ret)

(***************************************************************************)
(* EncryptedVector.sum                                                     *)
(***************************************************************************)
\* sum_out = 1; for j in range(count): sum_out = _raw_add(sum_out, ciphertext[cell(j)])
\* cells holds the 0-based indices cell(0), cell(1), ...
RECURSIVE SumOut(_, _, _)
SumOut(self, cells, count) ==
    IF count = 0 THEN 1
    ELSE vec_raw_add(self, SumOut(self, cells, count - 1),
                     self.ciphertext[cells[count] + 1])

\* sum that reads the grid column-major
vec_sum_column_major(self, shape, dim) ==
    LET shp   == IF Len(shape) = 1 THEN <<1, shape[1]>> ELSE shape
        row   == shp[1]
        colum == shp[2]
        outer == IF dim = 0 THEN colum ELSE row
        inner == IF dim = 0 THEN row ELSE colum
        cells(i) == [j \in 1..inner |->
                        IF dim = 0 THEN row * i + (j - 1) ELSE i + row * (j - 1)]
    IN  IF dim \notin {0, 1} THEN Raise("ValueError: dim")
        ELSE IF \E i \in 0..(outer - 1), j \in 1..inner :
                    cells(i)[j] >= Len(self.ciphertext)
        THEN Raise("IndexError")
        ELSE EncryptedVector(self.n, self.nsquare, self.max_int,
                             [i \in 1..outer |-> SumOut(self, cells(i - 1), inner)],
                             self.exponent)

\* EncryptedVector.sum(shape, dim)
vec_sum(self, shape, dim) ==
    LET shp   == IF Len(shape) = 1 THEN <<1, shape[1]>> ELSE shape
        row   == shp[1]
        colum == shp[2]
        outer == IF dim = 0 THEN colum ELSE row
        inner == IF dim = 0 THEN row ELSE colum
        cells(i) == [j \in 1..inner |->
                        IF dim = 0 THEN i + colum * (j - 1) ELSE colum * i + (j - 1)]
    IN  IF dim \notin {0, 1} THEN Raise("ValueError: dim")
        ELSE IF \E i \in 0..(outer - 1), j \in 1..inner :
                    cells(i)[j] >= Len(self.ciphertext)
        THEN Raise("IndexError")
        ELSE EncryptedVector(self.n, self.nsquare, self.max_int,
                             [i \in 1..outer |-> SumOut(self, cells(i - 1), inner)],
                             self.exponent)

(***************************************************************************)
(* The caller's session with one EncryptedVector: x is encrypted with      *)
(* encrypt_new, one call is made on it, and the result z is decrypted.     *)
(***************************************************************************)
\* the lengths of the grids handed to sum
GridLens == {r * c : r \in 1..MaxRows, c \in 1..MaxCols}

\* the vectors encrypted: b everywhere but a at one place
PeakVectors(len) ==
    {[i \in 1..len |-> IF i = j THEN a ELSE b] :
        j \in 1..len, a \in (-MaxVecPlain)..MaxVecPlain, b \in {0}}

\* the first element is encrypted with the least draw or with a draw that
\* shares a prime with n, the others with the least
GridDraws(pk, len) ==
    {[i \in 1..len |-> IF i = 1 THEN rnd ELSE FirstDraw(pk)] :
        rnd \in {FirstDraw(pk)} \cup {d \in Draws(pk) : d.r > 1 /\ gcd(d.r, pk.n) # 1}}

\* the shapes sum is called with on a vector of the given length
Shapes(len) ==
    {<<r, c>> : r \in 1..MaxRows, c \in 1..MaxCols} \cup {<<len>>}

Dims == 0..2

InitVec ==
    /\ keys \in KeyPairs
    /\ keys2 = NoKeys
    /\ x = NoCipher /\ y = NoCipher /\ z = NoCipher
    /\ out = NoOut
    /\ hist = NoHist
    /\ table = NoFile /\ call = Idle /\ ret = NoRet /\ tot = NoTot
    /\ heap = EmptyHeap /\ pool = NoPool /\ callers = NoCallers

\* x = public_key.encrypt_new(vs)
EncryptNewGrid ==
    /\ x.tag = "none"
    /\ \E len \in GridLens, e \in EncExps :
         \E vs \in PeakVectors(len), rnds \in GridDraws(keys.pub, len) :
           /\ x' = encrypt_new(keys.pub, vs, e, rnds)
           /\ hist' = [hist EXCEPT !.vx = vs, !.ex = e, !.draw = rnds[1].r]
    /\ UNCHANGED <<y, z, out, Session, KeyGen>>

\* z = x.sum(shape, dim)
VecSum ==
    /\ x.tag = "EncryptedVector" /\ y.tag = "none"
    /\ \E shape \in Shapes(Len(x.ciphertext)), dim \in Dims :
           Operation("sum", <<shape, dim>>, vec_sum(x, shape, dim))

NextSum ==
    \/ EncryptNewGrid
    \/ VecSum
    \/ DecryptNew(1, "z")
    \/ Reset

SpecSum == InitVec /\ [][NextSum]_vars

(***************************************************************************)
(* Properties of the vector session                                        *)
(***************************************************************************)
RECURSIVE SeqSum(_)
SeqSum(s) == IF s = <<>> THEN 0 ELSE s[1] + SeqSum(Tail(s))

\* every element of the vector is a unit mod n^2
UnitVector(c) == \A i \in 1..Len(c.ciphertext) : gcd(c.ciphertext[i], c.n) = 1

\* the plaintext sums of the rows (dim = 1) or columns (dim = 0) of vs read
\* row-major as a rows x cols grid
GridSums(vs, rows, cols, dim) ==
    IF dim = 1
    THEN [i \in 1..rows |-> SeqSum([j \in 1..cols |-> vs[cols * (i - 1) + j]])]
    ELSE [j \in 1..cols |-> SeqSum([i \in 1..rows |-> vs[cols * (i - 1) + j]])]

Summed(rows, cols, dim) ==
    /\ z.tag = "EncryptedVector"
    /\ Len(z.ciphertext) = IF dim = 1 THEN rows ELSE cols
    /\ z.exponent = x.exponent /\ z.n = x.n /\ z.nsquare = x.nsquare
    /\ decrypt_new(keys, z) =
           Decoded("value", GridSums(hist.vx, rows, cols, dim), x.exponent)

\* C11: for an EncryptedVector holding rows*cols residues, sum([rows, cols], 1)
\* returns rows ciphertexts, the i-th decrypting to the sum of row i, and
\* sum([rows, cols], 0) returns cols ciphertexts, the j-th decrypting to the
\* sum of column j; exponent and modulus are the input's; any other dim fails
\* with ValueError.
C11_Sum ==
    IsVec /\ hist.op = "sum" =>
        LET shape == hist.k[1]
            dim   == hist.k[2]
        IN  /\ dim \notin {0, 1} => z.tag = "ValueError: dim"
            /\ dim \in {0, 1} /\ Len(shape) = 2
                   /\ shape[1] * shape[2] = Len(x.ciphertext)
                   => Summed(shape[1], shape[2], dim)

\* the same for vectors whose blinding factors are coprime to n
C11_SumUnit == (IsVec /\ UnitVector(x)) => C11_Sum

\* a 2 x 3 grid of units was summed along its rows
C11_Witness ==
    /\ IsVec /\ UnitVector(x) /\ hist.op = "sum" /\ hist.k = <<(<<2, 3>>), 1>>
    /\ z.tag = "EncryptedVector" /\ Len(z.ciphertext) = 2
    /\ out.of = "z" /\ out.tag = "value"
    /\ out.mant = <<1, 0>>

(***************************************************************************)
(* The caller's session with vector arithmetic: x is encrypted with        *)
(* encrypt_new, a sum, product or difference is formed from it, the demo   *)
(* of src/enc_vector.py multiplies the sum once more, and the result z is  *)
(* decrypted.                                                              *)
(***************************************************************************)
ScenarioFactor == 4    \* ciphertext * 4 in src/enc_vector.py

\* x = public_key.encrypt_new(vs) for the vectors of length up to VecLen
EncryptNewVec ==
    /\ x.tag = "none"
    /\ \E len \in 1..VecLen, e \in EncExps :
         \E vs \in PeakVectors(len), rnds \in GridDraws(keys.pub, len) :
           /\ x' = encrypt_new(keys.pub, vs, e, rnds)
           /\ hist' = [hist EXCEPT !.vx = vs, !.ex = e, !.draw = rnds[1].r]
    /\ UNCHANGED <<y, z, out, Session, KeyGen>>

\* ciphertext = ciphertext + ciphertext
SelfAdd ==
    /\ x.tag = "EncryptedVector"
    /\ Operation("x + x", 0, VecAdd(x, x))

\* ciphertext = ciphertext * 4, on the sum formed before
MulResult(k) ==
    /\ hist.op = "x + x" /\ z.tag = "EncryptedVector"
    /\ z' = VecMul(z, IntOperand(k))
    /\ hist' = [hist EXCEPT !.op = "(x + x) * k", !.k = k]
    /\ out' = NoOut
    /\ UNCHANGED <<x, y, Session, KeyGen>>

\* the other operand of a sum or product: up to one element longer
OtherVectors ==
    UNION {{[i \in 1..len |-> v] : v \in (-MaxVecPlain)..MaxVecPlain} :
           len \in 1..(VecLen + 1)}

\* y = public_key.encrypt_new(ws)
EncryptNewOther ==
    /\ x.tag = "EncryptedVector" /\ y.tag = "none" /\ z.tag = "none" /\ out.tag = "none"
    /\ \E ws \in OtherVectors, e \in EncExps :
           /\ y' = encrypt_new(keys.pub, ws, e, [i \in 1..Len(ws) |-> FirstDraw(keys.pub)])
           /\ hist' = [hist EXCEPT !.vy = ws, !.ey = e]
    /\ UNCHANGED <<x, z, out, Session, KeyGen>>

\* z = x * np.array(ks)
VecMulSeq(ks) ==
    /\ x.tag = "EncryptedVector" /\ y.tag = "none"
    /\ Operation("x * ks", ks, VecMul(x, SeqOperand(ks)))

NextVec ==
    \/ EncryptNewVec
    \/ SelfAdd
    \/ MulResult(ScenarioFactor)
    \/ EncryptNewOther
    \/ VecAddEncrypted
    \/ \E ks \in OtherVectors : VecAddEncoded(1, ks)
    \/ \E ks \in OtherVectors : VecMulSeq(ks)
    \/ DecryptNew(1, "z")
    \/ Reset

SpecVec == InitVec /\ [][NextVec]_vars

\* every element times k is within max_int
ScaledInRange(vs, k) == \A i \in 1..Len(vs) : InRange(vs[i] * k)

Scaled(vs, k) == [i \in 1..Len(vs) |-> vs[i] * k]

\* z has the length of x and, once decrypted, holds k times the vector encrypted
DecryptsToScaled(k) ==
    /\ z.tag = "EncryptedVector" /\ Len(z.ciphertext) = Len(hist.vx)
    /\ DecryptedZ => out = [Decoded("value", Scaled(hist.vx, k), hist.ex) EXCEPT !.of = "z"]

\* C12: for a vector v encrypted with encrypt_new, c1 = E(v) + E(v) decrypts
\* with decrypt_new to 2*v element-wise, and c2 = c1 * 4 decrypts to 8*v
\* element-wise, with the length of v in both steps.
C12_VectorScenario ==
    /\ IsVec /\ hist.op = "x + x" /\ ScaledInRange(hist.vx, 2)
           => DecryptsToScaled(2)
    /\ IsVec /\ hist.op = "(x + x) * k" /\ ScaledInRange(hist.vx, 2 * hist.k)
           => DecryptsToScaled(2 * hist.k)

\* the same for vectors whose blinding factors are coprime to n
C12_VectorScenarioUnit == (IsVec /\ UnitVector(x)) => C12_VectorScenario

\* the call returned a ciphertext
Returns == z.tag = "EncryptedVector"

\* C14: multiplying an EncryptedVector by a sequence, or adding an
\* EncryptedVector or EncodedVector, of another length (shorter or longer) is
\* rejected with an error; no result is computed from part of an operand.
C14_EqualLength ==
    /\ IsVec /\ hist.op = "x * ks" /\ Len(hist.k) # Len(x.ciphertext) => ~Returns
    /\ IsVec /\ hist.op = "x + y" /\ Len(y.ciphertext) # Len(x.ciphertext) => ~Returns
    /\ IsVec /\ hist.op = "x + encoded" /\ Len(hist.k) # Len(x.ciphertext) => ~Returns

\* what holds of sums: the call is rejected when its loop runs past the end
\* of the other operand, and otherwise returns as many elements as the loop
\* counts, the rest of the longer operand left out
C14_SumTruncates ==
    /\ IsVec /\ hist.op = "x * ks" /\ Len(hist.k) # Len(x.ciphertext)
           => z.tag = "TypeError: Not at same shape"
    /\ IsVec /\ hist.op = "x + y" =>
           /\ Len(y.ciphertext) < Len(x.ciphertext) => ~Returns
           /\ Returns => Len(z.ciphertext) = Len(x.ciphertext)
    /\ IsVec /\ hist.op = "x + encoded" =>
           /\ Len(hist.k) > Len(x.ciphertext) => ~Returns
           /\ Returns => Len(z.ciphertext) = Len(hist.k)

\* C20: adding an EncodedVector w to E(v) of the same length and key returns a
\* vector of that length decrypting to v + w element-wise, for a modulus of
\* any size: the residues of the addend are not narrowed to a machine integer.
C20_AddEncodedVector ==
    IsVec /\ hist.op = "x + encoded" /\ hist.ex = 0
          /\ Len(hist.k) = Len(hist.vx)
          /\ (\A i \in 1..Len(hist.k) : InRange(hist.vx[i] + hist.k[i]))
    => /\ Returns /\ Len(z.ciphertext) = Len(hist.vx)
       /\ DecryptedZ =>
              out = [Decoded("value", [i \in 1..Len(hist.k) |-> hist.vx[i] + hist.k[i]], 0)
                         EXCEPT !.of = "z"]

\* the same where the blinding factors are coprime to n and every residue of
\* the addend is within numpy's int
C20_AddEncodedVectorNarrow ==
    (/\ IsVec /\ UnitVector(x) /\ hist.op = "x + encoded"
     /\ \A i \in 1..Len(hist.k) :
            NudeCiphertext(x.n, x.nsquare, x.max_int, hist.k[i] % x.n) <= IntMax)
    => C20_AddEncodedVector

(***************************************************************************)
(* EncryptedVector: shift_cipher, pack_blender, unpack_vector              *)
(***************************************************************************)
\* np.random.randint(2**30, 2**31, num_in_one_pack*2): the top bit of a lane
\* is clear and the next one set
RandomLanes(num_in_one_pack) ==
    [1..(2 * num_in_one_pack) -> Pow(2, LaneBits - 2)..(Pow(2, LaneBits - 1) - 1)]

\* value = random_num[0]; for each further lane: value << 32 | lane
RECURSIVE PackedValue(_, _)
PackedValue(random_num, count) ==
    IF count = 1 THEN random_num[1] % Pow(2, LaneBits)
    ELSE PackedValue(random_num, count - 1) * Pow(2, LaneBits)
             + (random_num[count] % Pow(2, LaneBits))

\* the mask of pack_blender for the lanes drawn
BlenderMask(num_in_one_pack, xgb_pack_switch, drawn) ==
    PackedValue([i \in 1..(2 * num_in_one_pack) |->
                    IF i = num_in_one_pack + 1 THEN 0
                    ELSE IF xgb_pack_switch /\ i = num_in_one_pack + 2 THEN 0
                    ELSE drawn[i]],
                2 * num_in_one_pack)

\* the mask with no lane cleared
BlenderMaskFull(num_in_one_pack, xgb_pack_switch, drawn) ==
    PackedValue(drawn, 2 * num_in_one_pack)

\* pack_blender(num_in_one_pack, xgb_pack_switch), drawn the random lanes
pack_blender(self, num_in_one_pack, xgb_pack_switch, drawn) ==
    IF xgb_pack_switch /\ num_in_one_pack + 1 >= 2 * num_in_one_pack
    THEN Raise("IndexError")
    ELSE LET value == BlenderMask(num_in_one_pack, xgb_pack_switch, drawn)
             encoding == encode_vector(self.n, self.max_int, <<value>>, NoMaxExponent)
         IN  IF encoding.tag # "EncodedVector" THEN Raise("ValueError: out of range")
             ELSE IF Len(self.ciphertext) = 0 THEN Raise("IndexError")
             ELSE LET encrypted_scalar == vec_raw_encrypt(self, encoding.encoding)
                      sum_ciphertext ==
                          <<vec_raw_add(self, self.ciphertext[1], encrypted_scalar[1])>>
                  IN  EncryptedVector(self.n, self.nsquare, self.max_int,
                                      sum_ciphertext, self.exponent)

\* unpack_vector(ind, num_in_one_pack, shift_positon)
unpack_vector(self, ind, num_in_one_pack, shift_positon) ==
    LET vector_ind == ind \div num_in_one_pack
        cipher_ind == ind % num_in_one_pack
    IN  IF vector_ind >= Len(self.ciphertext) THEN Raise("IndexError")
        ELSE LET tmp_cipher == self.ciphertext[vector_ind + 1]
                 shift_per  == Pow(2, shift_positon)
                 shift_lens == powmod(shift_per, cipher_ind, self.nsquare)
                 encoding   == encode_vector(self.n, self.max_int, <<shift_lens>>,
                                             NoMaxExponent)
             IN  IF encoding.tag # "EncodedVector" THEN Raise("ValueError: out of range")
                 ELSE LET product == raw_mul_2(self, tmp_cipher, encoding.encoding[1])
                      IN  IF product.tag # "int" THEN Raise(product.tag)
                          ELSE EncryptedVector(self.n, self.nsquare, self.max_int,
                                               <<product.v>>, self.exponent)

\* shift_cipher(): self * 2**32
shift_cipher(self) == VecMul(self, IntOperand(Pow(2, LaneBits)))

(***************************************************************************)
(* The caller's session with a packed plaintext: x encrypts one integer    *)
(* whose lanes are clean (top bit clear), y = x.pack_blender(..),          *)
(* z = y.unpack_vector(..), and z is decrypted.                            *)
(***************************************************************************)
NumInOnePack == 2

\* the key pairs generate_keys returns for the bit lengths of packed plaintexts
PackKeys ==
    UNION {{GeneratedKeys(pq[1], pq[2], L, pre) :
                pq \in {s \in SampledPrimes(L) : s[1] < s[2]}, pre \in BOOLEAN} :
           L \in {l \in KeySizes(MaxPackBits) : l >= 12}}

\* lane i (0 the lowest) of a packed value
Lane(value, i) == (value \div Pow(2, LaneBits * i)) % Pow(2, LaneBits)

\* packed plaintexts of 2 * NumInOnePack lanes, each with its top bit clear
CleanValues ==
    {v \in 0..(Pow(2, LaneBits * 2 * NumInOnePack) - 1) :
        \A i \in 0..(2 * NumInOnePack - 1) : Lane(v, i) < Pow(2, LaneBits - 1)}

\* get_random_lt_n returns 1, or the prime p
PackDraws(kp) ==
    IF kp.pub.r_pow_n_l # NoTable THEN {FirstDraw(kp.pub)}
    ELSE {[idx |-> <<>>, r |-> r] : r \in {1, kp.priv.p}}

InitPack ==
    /\ keys \in PackKeys
    /\ keys2 = NoKeys
    /\ x = NoCipher /\ y = NoCipher /\ z = NoCipher
    /\ out = NoOut
    /\ hist = NoHist
    /\ table = NoFile /\ call = Idle /\ ret = NoRet /\ tot = NoTot
    /\ heap = EmptyHeap /\ pool = NoPool /\ callers = NoCallers

\* x = public_key.encrypt_new([v])
EncryptPacked ==
    /\ x.tag = "none"
    /\ \E v \in CleanValues, rnd \in PackDraws(keys) :
           /\ x' = encrypt_new(keys.pub, <<v>>, 0, <<rnd>>)
           /\ hist' = [hist EXCEPT !.vx = <<v>>, !.draw = rnd.r]
    /\ UNCHANGED <<y, z, out, Session, KeyGen>>

\* y = x.pack_blender(NumInOnePack, xgb_pack_switch)
PackBlender(xgb_pack_switch) ==
    /\ x.tag = "EncryptedVector" /\ y.tag = "none"
    /\ \E drawn \in RandomLanes(NumInOnePack) :
           /\ y' = pack_blender(x, NumInOnePack, xgb_pack_switch, drawn)
           /\ hist' = [hist EXCEPT
                         !.op = "pack_blender",
                         !.vy = BlenderMask(NumInOnePack, xgb_pack_switch, drawn),
                         !.with = xgb_pack_switch]
    /\ UNCHANGED <<x, z, out, Session, KeyGen>>

\* z = y.unpack_vector(ind, NumInOnePack)
UnpackVector(ind) ==
    /\ y.tag = "EncryptedVector" /\ z.tag = "none"
    /\ z' = unpack_vector(y, ind, NumInOnePack, LaneBits)
    /\ hist' = [hist EXCEPT !.op = "unpack_vector", !.k = ind]
    /\ UNCHANGED <<x, y, out, Session, KeyGen>>

NextPack ==
    \/ EncryptPacked
    \/ \E xgb_pack_switch \in BOOLEAN : PackBlender(xgb_pack_switch)
    \/ \E ind \in 0..NumInOnePack : UnpackVector(ind)
    \/ DecryptNew(1, "z")
    \/ Reset

SpecPack == InitPack /\ [][NextPack]_vars

(***************************************************************************)
(* Properties of packing                                                   *)
(***************************************************************************)
\* lanes counted from the top, as pack_blender's list is
TopLane(value, i) == Lane(value, 2 * NumInOnePack - 1 - i)

\* lane num_in_one_pack (and the next when the switch is set) is zero, every
\* other lane has its top bit clear and the next one set
MaskShape(mask, switch) ==
    \A i \in 0..(2 * NumInOnePack - 1) :
        IF i = NumInOnePack \/ (switch /\ i = NumInOnePack + 1)
        THEN TopLane(mask, i) = 0
        ELSE /\ TopLane(mask, i) >= Pow(2, LaneBits - 2)
             /\ TopLane(mask, i) < Pow(2, LaneBits - 1)

\* the factor unpack_vector multiplies by
ShiftOf(ind) == Pow(2, LaneBits * (ind % NumInOnePack))

\* C13: pack_blender adds to the first element a mask of 2*num_in_one_pack
\* lanes whose lane num_in_one_pack (and the next with xgb_pack_switch) is
\* zero and whose other lanes lie in [2^30, 2^31); unpack_vector(index, num)
\* yields a length-1 ciphertext whose plaintext is the owning element's times
\* 2^(32*(index mod num)) mod n, so that decryption and subtraction of the
\* mask recover the clean value at the zero lane.
C13_PackUnpack ==
    /\ IsVec /\ hist.op \in {"pack_blender", "unpack_vector"}
           => MaskShape(hist.vy, hist.with)
    /\ IsVec /\ hist.op = "unpack_vector" /\ hist.k < NumInOnePack
             /\ InRange((hist.vx[1] + hist.vy) * ShiftOf(hist.k))
           => /\ z.tag = "EncryptedVector" /\ Len(z.ciphertext) = 1
              /\ DecryptedZ =>
                   /\ out.tag = "value"
                   /\ out.mant[1] = ((hist.vx[1] + hist.vy) * ShiftOf(hist.k)) % x.n
                   /\ out.mant[1] - hist.vy * ShiftOf(hist.k)
                          = hist.vx[1] * ShiftOf(hist.k)
                   /\ LET zero == NumInOnePack - 1 + (hist.k % NumInOnePack)
                      IN  Lane(out.mant[1], zero) = Lane(hist.vx[1], NumInOnePack - 1)

\* the same for ciphertexts whose blinding factors are coprime to n
C13_PackUnpackUnit == (IsVec /\ UnitVector(x)) => C13_PackUnpack

(***************************************************************************)
(* Ciphertext objects.  A ciphertext the caller holds is an object at an   *)
(* address of the heap; an operation reads its operands through their      *)
(* addresses, and every constructor call takes a free address.  An         *)
(* operation returns the heap it leaves and the address it returns, or     *)
(* the exception it raises.                                                *)
(***************************************************************************)
NoObject == 0    \* no address: the call raised

Live(h) == {a \in Addrs : h[a].tag # "none"}

Fresh(h) == CHOOSE a \in Addrs \ Live(h) : \A b \in Addrs \ Live(h) : a <= b

Ref(h, a) == [heap |-> h, ret |-> a, tag |-> "ok"]

Raised(h, name) == [heap |-> h, ret |-> NoObject, tag |-> name]

IsObject(o) == o.tag \in {"EncryptedNumber", "EncryptedVector"}

\* EncryptedNumber(...) or EncryptedVector(...): the constructor call that
\* ends an operation; obj is the exception when the operation raised before
New(h, obj) ==
    IF ~IsObject(obj) THEN Raised(h, obj.tag)
    ELSE Ref([h EXCEPT ![Fresh(h)] = obj], Fresh(h))

\* __mul__(self, other)
obj_mul(h, self, other) ==
    New(h, IF h[self].tag = "EncryptedVector" THEN VecMul(h[self], other)
           ELSE Mul(h[self], other))

\* decrease_exponent_to written so that it rescales self itself
obj_decrease_exponent_in_place(h, self, new_exp) ==
    IF new_exp > h[self].exponent THEN Raised(h, "ValueError: exponent")
    ELSE With(obj_mul(h, self, IntOperand(Pow(BASE, h[self].exponent - new_exp))),
              LAMBDA multiplied :
                  IF multiplied.tag # "ok" THEN multiplied
                  ELSE Ref([h EXCEPT ![self] =
                               [multiplied.heap[multiplied.ret]
                                   EXCEPT !.exponent = new_exp]],
                           self))

\* decrease_exponent_to(self, new_exp): multiplied = self * ...;
\* multiplied.exponent = new_exp; return multiplied
obj_decrease_exponent_to(h, self, new_exp) ==
    IF new_exp > h[self].exponent THEN Raised(h, "ValueError: exponent")
    ELSE With(obj_mul(h, self, IntOperand(Pow(BASE, h[self].exponent - new_exp))),
              LAMBDA multiplied :
                  IF multiplied.tag # "ok" THEN multiplied
                  ELSE Ref([multiplied.heap EXCEPT ![multiplied.ret].exponent = new_exp],
                           multiplied.ret))

\* the end of _add_encrypted: sum_ciphertext = a._raw_add(...) and the
\* constructor call, a and b of one exponent
AddAligned(g, a, b) ==
    New(g, IF a.tag = "EncryptedVector"
           THEN Zip(a, a.ciphertext, b.ciphertext, Len(a.ciphertext))
           ELSE EncryptedNumber(a.n, a.nsquare, a.max_int,
                                raw_add(a, a.ciphertext, b.ciphertext), a.exponent))

\* _add_encrypted(self, other): a, b = self, other; the operand of the
\* higher exponent is replaced by self.decrease_exponent_to(...) or
\* b.decrease_exponent_to(...)
obj_add_encrypted(h, self, other) ==
    IF h[self].n # h[other].n THEN Raised(h, "ValueError: different keys")
    ELSE With(IF h[self].exponent > h[other].exponent
              THEN obj_decrease_exponent_to(h, self, h[other].exponent)
              ELSE Ref(h, self),
              LAMBDA a :
                  IF a.tag # "ok" THEN a
                  ELSE With(IF h[self].exponent < h[other].exponent
                            THEN obj_decrease_exponent_to(a.heap, other, h[self].exponent)
                            ELSE Ref(a.heap, other),
                            LAMBDA b :
                                IF b.tag # "ok" THEN b
                                ELSE AddAligned(b.heap, b.heap[a.ret], b.heap[b.ret])))

\* _add_encoded(self, encoded): a = self.decrease_exponent_to(...) when
\* the encoding has the lower exponent
obj_add_encoded(h, self, encoded) ==
    IF h[self].n # encoded.n THEN Raised(h, "ValueError: different keys")
    ELSE With(IF h[self].exponent > encoded.exponent
              THEN obj_decrease_exponent_to(h, self, encoded.exponent)
              ELSE Ref(h, self),
              LAMBDA a :
                  IF a.tag # "ok" THEN a
                  ELSE New(a.heap, IF a.heap[a.ret].tag = "EncryptedVector"
                                   THEN vec_add_encoded(a.heap[a.ret], encoded)
                                   ELSE add_encoded(a.heap[a.ret], encoded)))

\* __add__(self, other) for an int other: _add_scalar
obj_add_scalar(h, self, scalar) ==
    LET encoded == encode(h[self].n, h[self].max_int, scalar, h[self].exponent)
    IN  IF encoded.tag # "EncodedNumber" THEN Raised(h, "ValueError: out of range")
        ELSE obj_add_encoded(h, self, encoded)

\* __sub__(self, other) = self + (other * -1), other a ciphertext
obj_sub(h, self, other) ==
    With(obj_mul(h, other, IntOperand(-1)),
         LAMBDA negated :
             IF negated.tag # "ok" THEN negated
             ELSE obj_add_encrypted(negated.heap, self, negated.ret))

(***************************************************************************)
(* phe.encoding: EncodedNumber for the float 1 / scalar                    *)
(***************************************************************************)
LOG2_BASE == 4    \* EncodedNumber.LOG2_BASE = log2(BASE)

\* the scalars whose reciprocal is an exact float: +-2^j
BinaryExponent(scalar) == CHOOSE j \in 0..bit_length(Abs(scalar)) : Pow(2, j) = Abs(scalar)

IsPowerOfTwo(scalar) == \E j \in 0..bit_length(Abs(scalar)) : Pow(2, j) = Abs(scalar)

\* EncodedNumber.encode(n, max_int, 1 / scalar): the exponent is that of the
\* float's least significant mantissa bit, frexp(1 / scalar) = (+-0.5, 1 - j)
encode_reciprocal(n, max_int, scalar) ==
    LET j == BinaryExponent(scalar)
        bin_lsb_exponent == (1 - j) - FloatBits
        exponent == bin_lsb_exponent \div LOG2_BASE
        bits     == (-j) - LOG2_BASE * exponent    \* int_rep = +-2^bits
    IN  IF bits >= bit_length(max_int)
        THEN [tag |-> "ValueError", n |-> n, encoding |-> 0, exponent |-> 0]
        ELSE [tag |-> "EncodedNumber", n |-> n,
              encoding |-> ((IF scalar < 0 THEN -1 ELSE 1) * Pow(2, bits)) % n,
              exponent |-> exponent]

\* EncryptedNumber.__truediv__(self, scalar) = self.__mul__(1 / scalar)
TrueDiv(self, scalar) ==
    IF scalar = 0 THEN Raise("ZeroDivisionError")
    ELSE LET encoding == encode_reciprocal(self.n, self.max_int, scalar)
         IN  IF encoding.tag # "EncodedNumber" THEN Raise("ValueError: out of range")
             ELSE Mul(self, encoding)

\* EncryptedVector.__truediv__(self, scalar) = self.__mul__(1 / scalar)
VecTrueDiv(self, scalar) ==
    IF scalar = 0 THEN Raise("ZeroDivisionError")
    ELSE LET encoding == encode_reciprocal(self.n, self.max_int, scalar)
         IN  IF encoding.tag # "EncodedNumber" THEN Raise("ValueError: out of range")
             ELSE LET product == Collect([i \in 1..Len(self.ciphertext) |->
                                     raw_mul_2(self, self.ciphertext[i], encoding.encoding)])
                  IN  IF product.tag # "int" THEN Raise(product.tag)
                      ELSE EncryptedVector(self.n, self.nsquare, self.max_int, product.v,
                                           self.exponent + encoding.exponent)

\* EncryptedVector.bind_to_vector(cipher_list): the first element of every
\* vector of the list, under the first vector's key and exponent
bind_to_vector(cipher_list) ==
    IF Len(cipher_list) = 0 THEN Raise("IndexError")
    ELSE LET tmp_cipher == cipher_list[1]
         IN  IF \E i \in 1..Len(cipher_list) : Len(cipher_list[i].ciphertext) = 0
             THEN Raise("IndexError")
             ELSE EncryptedVector(tmp_cipher.n, tmp_cipher.nsquare, tmp_cipher.max_int,
                      [i \in 1..Len(cipher_list) |-> cipher_list[i].ciphertext[1]],
                      tmp_cipher.exponent)

\* __truediv__(self, scalar)
obj_truediv(h, self, scalar) ==
    New(h, IF h[self].tag = "EncryptedVector" THEN VecTrueDiv(h[self], scalar)
           ELSE TrueDiv(h[self], scalar))

\* shift_cipher() = self * 2**32
obj_shift_cipher(h, self) == obj_mul(h, self, IntOperand(Pow(2, LaneBits)))

obj_pack_blender(h, self, num_in_one_pack, xgb_pack_switch, drawn) ==
    New(h, pack_blender(h[self], num_in_one_pack, xgb_pack_switch, drawn))

obj_unpack_vector(h, self, ind, num_in_one_pack, shift_positon) ==
    New(h, unpack_vector(h[self], ind, num_in_one_pack, shift_positon))

obj_bind_to_vector(h, cipher_list) ==
    New(h, bind_to_vector([i \in 1..Len(cipher_list) |-> h[cipher_list[i]]]))

obj_sum(h, self, shape, dim) == New(h, vec_sum(h[self], shape, dim))

\* __setitem__(self, key, value): self.ciphertext[key] = value
obj_setitem(h, self, key, value) ==
    IF key >= Len(h[self].ciphertext) \/ key < -Len(h[self].ciphertext)
    THEN Raised(h, "IndexError")
    ELSE LET at == IF key < 0 THEN key + Len(h[self].ciphertext) + 1 ELSE key + 1
         IN  [heap |-> [h EXCEPT ![self].ciphertext[at] = value],
              ret |-> NoObject, tag |-> "ok"]

(***************************************************************************)
(* The caller's session with ciphertext objects: ciphertexts are           *)
(* encrypted, operations are called on the objects alive, and every call   *)
(* leaves its operands alive next to the object it returns; the objects    *)
(* no name refers to after the call (the temporaries) are freed.  hist     *)
(* holds the last call: its name, the addresses of its operands, the       *)
(* address it returned or the exception it raised.                         *)
(***************************************************************************)
\* the least modulus with a blinding table, and the least modulus that holds
\* a packed plaintext
LeastOf(pairs) == {kp \in pairs : \A other \in pairs : kp.pub.n <= other.pub.n}

HeapKeys ==
    LeastOf({kp \in KeyPairs : kp.pub.r_pow_n_l # NoTable})
        \cup LeastOf({kp \in PackKeys : kp.pub.r_pow_n_l = NoTable})

HeapPlaintexts == 1..MaxPlain

\* arrays of one repeated value
HeapVectors == {[i \in 1..len |-> v] : len \in 1..VecLen, v \in HeapPlaintexts}

Operations == {"add", "add_scalar", "add_encoded", "sub", "mul", "truediv",
               "decrease_exponent_to", "shift_cipher", "pack_blender",
               "unpack_vector", "bind_to_vector", "sum"}

InitHeap ==
    /\ keys \in HeapKeys
    /\ keys2 = NoKeys
    /\ x = NoCipher /\ y = NoCipher /\ z = NoCipher
    /\ out = NoOut
    /\ hist = NoHist
    /\ table = NoFile /\ call = Idle /\ ret = NoRet /\ tot = NoTot
    /\ heap = EmptyHeap /\ pool = NoPool /\ callers = NoCallers

\* room for the temporaries and the result of one call
Room == Cardinality(Live(heap)) + 3 <= HeapSize

\* the caller encrypts the two operands of an operation
Operands == Cardinality(Live(heap)) < 2 /\ Cardinality(Live(heap)) + 4 <= HeapSize

\* the caller encrypts, then calls one operation, assigns one item or
\* decrypts once
Encrypting == hist.op \in {"none", "encrypt", "encrypt_new"}

Numbers == {a \in Live(heap) : heap[a].tag = "EncryptedNumber"}

Vectors == {a \in Live(heap) : heap[a].tag = "EncryptedVector"}

\* the call returns: the caller holds its operands and the result
ObjectCall(name, self, other, result) ==
    /\ Room /\ Encrypting
    /\ heap' = [a \in Addrs |->
                   IF a \in Live(heap) \cup {result.ret} THEN result.heap[a]
                   ELSE NoCipher]
    /\ hist' = [op |-> name, self |-> self, other |-> other,
                ret |-> result.ret, tag |-> result.tag]
    /\ UNCHANGED <<keys, keys2, x, y, z, out, KeyGen, pool, callers>>

\* public_key.encrypt(v) or public_key.encrypt(EncodedNumber of exponent e)
ObjEncrypt ==
    \E v \in HeapPlaintexts, e \in EncExps :
        /\ Operands
        /\ ObjectCall("encrypt", NoObject, NoObject,
                      New(heap, encrypt(keys.pub, v, e, NoRValue,
                                       FirstDraw(keys.pub))))

\* public_key.encrypt_new(vs)
ObjEncryptNew ==
    \E vs \in HeapVectors, e \in EncExps :
        /\ Operands
        /\ ObjectCall("encrypt_new", NoObject, NoObject,
                      New(heap, encrypt_new(keys.pub, vs, e,
                                            [i \in 1..Len(vs) |-> FirstDraw(keys.pub)])))

\* self + other, both ciphertexts of one type
ObjAdd ==
    \E self \in Live(heap), other \in Live(heap) :
        /\ heap[self].tag = heap[other].tag
        /\ ObjectCall("add", self, other, obj_add_encrypted(heap, self, other))

\* self + k
ObjAddScalar ==
    \E self \in Numbers, k \in Scalars :
        ObjectCall("add_scalar", self, NoObject, obj_add_scalar(heap, self, k))

\* self + EncodedVector.encode(.., ks)
ObjAddEncoded ==
    \E self \in Vectors, ks \in HeapVectors :
        ObjectCall("add_encoded", self, NoObject,
                   obj_add_encoded(heap, self,
                       encode_vector(heap[self].n, heap[self].max_int, ks, NoMaxExponent)))

\* self - other
ObjSub ==
    \E self \in Live(heap), other \in Live(heap) :
        /\ heap[self].tag = heap[other].tag
        /\ ObjectCall("sub", self, other, obj_sub(heap, self, other))

\* self * k
ObjMul ==
    \E self \in Live(heap), k \in Scalars :
        ObjectCall("mul", self, NoObject, obj_mul(heap, self, IntOperand(k)))

\* self / k
ObjTrueDiv ==
    \E self \in Live(heap), k \in {s \in Scalars : s = 0 \/ IsPowerOfTwo(s)} :
        ObjectCall("truediv", self, NoObject, obj_truediv(heap, self, k))

\* self.decrease_exponent_to(t)
ObjDecreaseExponentTo ==
    \E self \in Live(heap), t \in ExpChanges :
        ObjectCall("decrease_exponent_to", self, NoObject,
                   obj_decrease_exponent_to(heap, self, heap[self].exponent + t))

\* self.shift_cipher()
ObjShiftCipher ==
    \E self \in Vectors :
        ObjectCall("shift_cipher", self, NoObject, obj_shift_cipher(heap, self))

\* self.pack_blender(NumInOnePack, xgb_pack_switch)
ObjPackBlender ==
    \E self \in Vectors, xgb_pack_switch \in BOOLEAN,
       drawn \in RandomLanes(NumInOnePack) :
        ObjectCall("pack_blender", self, NoObject,
                   obj_pack_blender(heap, self, NumInOnePack, xgb_pack_switch, drawn))

\* self.unpack_vector(ind, NumInOnePack)
ObjUnpackVector ==
    \E self \in Vectors, ind \in 0..NumInOnePack :
        ObjectCall("unpack_vector", self, NoObject,
                   obj_unpack_vector(heap, self, ind, NumInOnePack, LaneBits))

\* EncryptedVector.bind_to_vector([self, other])
ObjBindToVector ==
    \E self \in Vectors, other \in Vectors :
        ObjectCall("bind_to_vector", self, other,
                   obj_bind_to_vector(heap, <<self, other>>))

\* self.sum(shape, dim)
ObjSum ==
    \E self \in Vectors :
        \E shape \in Shapes(Len(heap[self].ciphertext)), dim \in Dims :
            ObjectCall("sum", self, NoObject, obj_sum(heap, self, shape, dim))

\* self[key] = value
ObjSetItem ==
    \E self \in Vectors, key \in (-1)..VecLen, value \in 1..MaxPlain :
        /\ Encrypting
        /\ heap' = obj_setitem(heap, self, key, value).heap
        /\ hist' = [op |-> "setitem", self |-> self, other |-> NoObject,
                    ret |-> NoObject, tag |-> obj_setitem(heap, self, key, value).tag]
        /\ UNCHANGED <<keys, keys2, x, y, z, out, KeyGen, pool, callers>>

\* private_key.decrypt(self) or private_key.decrypt_new(self)
ObjDecrypt ==
    \E self \in Live(heap) :
        /\ Encrypting
        /\ out' = IF heap[self].tag = "EncryptedVector"
                  THEN decrypt_new(keys, heap[self]) ELSE decrypt(keys, heap[self])
        /\ hist' = [op |-> "decrypt", self |-> self, other |-> NoObject,
                    ret |-> NoObject, tag |-> "ok"]
        /\ UNCHANGED <<keys, keys2, x, y, z, heap, KeyGen, pool, callers>>

\* the caller drops its ciphertexts
Drop ==
    /\ Live(heap) # {}
    /\ heap' = EmptyHeap /\ out' = NoOut /\ hist' = NoHist
    /\ UNCHANGED <<keys, keys2, x, y, z, KeyGen, pool, callers>>

NextHeap ==
    \/ ObjEncrypt
    \/ ObjEncryptNew
    \/ ObjAdd
    \/ ObjAddScalar
    \/ ObjAddEncoded
    \/ ObjSub
    \/ ObjMul
    \/ ObjTrueDiv
    \/ ObjDecreaseExponentTo
    \/ ObjShiftCipher
    \/ ObjPackBlender
    \/ ObjUnpackVector
    \/ ObjBindToVector
    \/ ObjSum
    \/ ObjSetItem
    \/ ObjDecrypt
    \/ Drop

SpecHeap == InitHeap /\ [][NextHeap]_vars

\* the fields of a ciphertext object the caller can read
Fields(o) == <<o.n, o.nsquare, o.max_int, o.ciphertext, o.exponent>>

\* C15: every operation on ciphertexts returns an object at an address that
\* was free before the call and leaves the n, nsquare, max_int, ciphertext
\* and exponent of every object alive before the call as they were, the
\* operand rescaled for the exponents to match included; only
\* self[key] = value changes an object, and it changes the ciphertext of
\* self alone; no call, encryption and decryption included, changes a key
C15_ValueLike ==
    [][/\ keys' = keys /\ keys2' = keys2
       /\ hist'.op \in Operations \cup {"encrypt", "encrypt_new", "decrypt"} =>
              /\ \A a \in Live(heap) : Fields(heap'[a]) = Fields(heap[a])
              /\ hist'.op \in Operations /\ hist'.tag = "ok" =>
                     /\ hist'.ret \notin Live(heap)
                     /\ Live(heap') = Live(heap) \cup {hist'.ret}
       /\ hist'.op = "setitem" =>
              /\ \A a \in Live(heap) \ {hist'.self} : heap'[a] = heap[a]
              /\ [heap'[hist'.self] EXCEPT !.ciphertext = 0]
                     = [heap[hist'.self] EXCEPT !.ciphertext = 0]]_vars

\* an addition of two ciphertexts of different exponents has returned
C15_Witness ==
    /\ hist.op = "add" /\ hist.tag = "ok"
    /\ heap[hist.self].exponent > heap[hist.other].exponent
    /\ heap[hist.ret].exponent = heap[hist.other].exponent
    /\ hist.ret \notin {hist.self, hist.other}

(***************************************************************************)
(* Construction of private keys: the caller constructs a PaillierPrivateKey *)
(* from a public key and two factors of its choice, or a table file with   *)
(* factors of any kind is put at the table path and                        *)
(* generate_paillier_keypair loads it.  hist holds the (n, p, q) given to  *)
(* the constructor; a constructor that raised leaves its exception as the  *)
(* tag of the private key.                                                 *)
(***************************************************************************)
Factors == 1..MaxFactor

Moduli == {a * b : a \in Factors, b \in Factors}

\* the least bit length generate_paillier_keypair has keys for
LeastLength == CHOOSE L \in KeySizes(MaxBits) : \A M \in KeySizes(MaxBits) : L <= M

InitPriv ==
    /\ keys = NoKeys /\ keys2 = NoKeys
    /\ x = NoCipher /\ y = NoCipher /\ z = NoCipher
    /\ out = NoOut
    /\ hist = NoHist
    /\ table = NoFile /\ call = Idle /\ ret = NoRet /\ tot = NoTot
    /\ heap = EmptyHeap /\ pool = NoPool /\ callers = NoCallers

\* PaillierPrivateKey(PaillierPublicKey(n), p, q)
Construct ==
    /\ keys = NoKeys /\ table = NoFile
    /\ \E n \in Moduli, p \in Factors, q \in Factors :
           LET public_key == PaillierPublicKey(n, NoTable, DefaultNLength)
           IN  /\ keys' = [pub |-> public_key,
                           priv |-> PaillierPrivateKey(public_key, p, q)]
               /\ hist' = [op |-> "construct", n |-> n, p |-> p, q |-> q]
    /\ UNCHANGED <<keys2, x, y, z, out, KeyGen, Objects>>

\* a table file that generate_keys did not write is put at the table path
PutTable ==
    /\ keys = NoKeys /\ table = NoFile
    /\ \E n \in Moduli, p \in Factors, q \in Factors :
           table' = [tag |-> "present", n_length |-> LeastLength, n |-> n,
                     p |-> p, q |-> q, r_pow_n_l |-> NoTable]
    /\ UNCHANGED <<keys, keys2, x, y, z, out, hist, call, ret, tot, Objects>>

\* the caller drops the key and the table file is removed
Forget ==
    /\ keys # NoKeys \/ table # NoFile
    /\ keys' = NoKeys /\ hist' = NoHist /\ table' = NoFile /\ ret' = NoRet
    /\ UNCHANGED <<keys2, x, y, z, out, call, tot, Objects>>

NextPriv ==
    \/ Construct
    \/ PutTable
    \/ \E precompute \in BOOLEAN : LoadCall(LeastLength, precompute)
    \/ Forget

SpecPriv == InitPriv /\ [][NextPriv]_vars

\* the private key constructed from (n, p, q)
Constructed(private_key, n, p, q) ==
    /\ private_key.tag = "PaillierPrivateKey" => p # q /\ p * q = n
    /\ p = q \/ p * q # n => private_key.tag = "ValueError"
    /\ private_key.tag = "PaillierPrivateKey" =>
           /\ private_key.p < private_key.q
           /\ {private_key.p, private_key.q} = {p, q}
           /\ private_key.psquare = private_key.p * private_key.p
           /\ private_key.qsquare = private_key.q * private_key.q
           /\ (private_key.p_inverse * private_key.p) % private_key.q = 1

\* C16: a PaillierPrivateKey is constructed only from p # q with p * q = n,
\* construction raises ValueError for every other (n, p, q), also when the
\* factors come from a loaded table file, and a constructed key has p < q,
\* psquare = p^2, qsquare = q^2 and p_inverse * p = 1 (mod q) in whichever
\* order the factors were given
C16_PrivateKey ==
    /\ keys # NoKeys => Constructed(keys.priv, hist.n, hist.p, hist.q)
    /\ ret.tag = "keys" /\ ret.loaded =>
           Constructed(ret.priv, table.n, table.p, table.q)

\* a key has been constructed from two primes given in descending order
C16_Witness ==
    /\ keys # NoKeys /\ keys.priv.tag = "PaillierPrivateKey"
    /\ hist.p > hist.q /\ IsPrime(hist.p) /\ IsPrime(hist.q)
    /\ keys.priv.p = hist.q /\ keys.priv.q = hist.p

\* loading a table whose factors do not match its n has raised ValueError
LoadedMismatch ==
    /\ ret.tag = "keys" /\ ret.loaded /\ ret.priv.tag = "ValueError"
    /\ table.p # table.q /\ table.p * table.q # table.n

(***************************************************************************)
(* generate_keys with precompute, step by step: the primes are sampled,    *)
(* pool.map hands the TableSize slot tasks to the worker processes and     *)
(* returns the list of their results, the pool is closed and joined, the   *)
(* PaillierPublicKey is constructed, the table file is written and the     *)
(* PaillierPrivateKey is constructed.  pool.task[i] is "queued",           *)
(* "running" or "done", pool.on[i] the worker that runs or ran task i,     *)
(* pool.result[i] what task i returned to the pool.                        *)
(***************************************************************************)
Slots == 1..TableSize

Processes == 1..MaxProcesses

\* pow_mod_n2_new(i - 1): the task of slot i
SlotTask(p, q, i) ==
    pow_mod_n2(i - 1, p * q, p * p, q * q, invert(q * q, p * p))

\* a map that returns what the pool holds once the tasks are handed out
MapReturnsEarly == \A i \in Slots : pool.task[i] # "queued"

\* pool.map returns when every task has returned
MapReturns == \A i \in Slots : pool.task[i] = "done"

InitPool ==
    /\ keys = NoKeys /\ keys2 = NoKeys
    /\ x = NoCipher /\ y = NoCipher /\ z = NoCipher
    /\ out = NoOut
    /\ hist = NoHist
    /\ table = NoFile /\ call = Idle /\ ret = NoRet /\ tot = NoTot
    /\ heap = EmptyHeap /\ pool = NoPool /\ callers = NoCallers

\* the sampling loop has left (p, q); pool = mp.Pool(max_processes) and
\* pool.map(pow_mod_n2_new, range(16384)) is called
PoolMap ==
    /\ pool.pc = "idle" /\ keys = NoKeys
    /\ \E n_length \in KeySizes(MaxBits) :
           \E pq \in SampledPrimes(n_length) :
               pool' = [pc |-> "map", p |-> pq[1], q |-> pq[2], n_length |-> n_length,
                        task |-> [i \in Slots |-> "queued"],
                        on |-> [i \in Slots |-> NoProcess],
                        result |-> [i \in Slots |-> NoResult],
                        r_pow_n_l |-> NoTable]
    /\ UNCHANGED <<keys, keys2, x, y, z, out, hist, KeyGen, heap, callers>>

\* an idle worker process takes a queued task
Take(w, i) ==
    /\ pool.pc = "map" /\ pool.task[i] = "queued"
    /\ \A j \in Slots : pool.task[j] = "running" => pool.on[j] # w
    /\ pool' = [pool EXCEPT !.task[i] = "running", !.on[i] = w]
    /\ UNCHANGED <<keys, keys2, x, y, z, out, hist, KeyGen, heap, callers>>

\* the worker process returns the result of its task to the pool
Complete(w, i) ==
    /\ pool.pc = "map" /\ pool.task[i] = "running" /\ pool.on[i] = w
    /\ pool' = [pool EXCEPT !.task[i] = "done",
                            !.result[i] = SlotTask(pool.p, pool.q, i)]
    /\ UNCHANGED <<keys, keys2, x, y, z, out, hist, KeyGen, heap, callers>>

\* r_pow_n_l = pool.map(...) returns; pool.close(); pool.join()
MapReturn ==
    /\ pool.pc = "map" /\ MapReturns
    /\ pool' = [pool EXCEPT !.pc = "joined", !.r_pow_n_l = pool.result]
    /\ UNCHANGED <<keys, keys2, x, y, z, out, hist, KeyGen, heap, callers>>

\* public_key = PaillierPublicKey(n, r_pow_n_l, n_length)
ConstructPublicKey ==
    /\ pool.pc = "joined"
    /\ keys' = [pub |-> PaillierPublicKey(pool.p * pool.q, pool.r_pow_n_l, pool.n_length),
                priv |-> NoKey]
    /\ pool' = [pool EXCEPT !.pc = "constructed"]
    /\ UNCHANGED <<keys2, x, y, z, out, hist, KeyGen, heap, callers>>

\* the table is pickled to table.pkl
WriteTable ==
    /\ pool.pc = "constructed"
    /\ table' = [tag |-> "present", n_length |-> pool.n_length,
                 n |-> pool.p * pool.q, p |-> pool.p, q |-> pool.q,
                 r_pow_n_l |-> pool.r_pow_n_l]
    /\ pool' = [pool EXCEPT !.pc = "written"]
    /\ UNCHANGED <<keys, keys2, x, y, z, out, hist, call, ret, tot, heap, callers>>

\* private_key = PaillierPrivateKey(public_key, p, q); return
ReturnKeys ==
    /\ pool.pc = "written"
    /\ keys' = [keys EXCEPT !.priv = PaillierPrivateKey(keys.pub, pool.p, pool.q)]
    /\ pool' = [pool EXCEPT !.pc = "returned"]
    /\ UNCHANGED <<keys2, x, y, z, out, hist, KeyGen, heap, callers>>

\* the caller drops the keys and the table file is removed
ForgetPool ==
    /\ pool.pc = "returned"
    /\ keys' = NoKeys /\ table' = NoFile /\ pool' = NoPool
    /\ UNCHANGED <<keys2, x, y, z, out, hist, call, ret, tot, heap, callers>>

NextPool ==
    \/ PoolMap
    \/ \E w \in Processes, i \in Slots : Take(w, i)
    \/ \E w \in Processes, i \in Slots : Complete(w, i)
    \/ MapReturn
    \/ ConstructPublicKey
    \/ WriteTable
    \/ ReturnKeys
    \/ ForgetPool

SpecPool == InitPool /\ [][NextPool]_vars

\* the blinding table tbl is the list of the results of all slot tasks
TaskResults(tbl, p, q) ==
    /\ Len(tbl) = TableSize
    /\ \A i \in Slots : tbl[i] = SlotTask(p, q, i) /\ tbl[i] >= 0
                        /\ tbl[i] < (p * q) * (p * q)

\* C17: the PaillierPublicKey is constructed and the table file is written
\* only after every slot task has completed, and whichever worker ran which
\* task in whichever order, the table of the key and of the file has
\* TableSize entries, entry i the result of task i, each below n^2
C17_FanOutFanIn ==
    /\ keys # NoKeys \/ table # NoFile => \A i \in Slots : pool.task[i] = "done"
    /\ keys # NoKeys => TaskResults(keys.pub.r_pow_n_l, pool.p, pool.q)
    /\ table # NoFile => TaskResults(table.r_pow_n_l, pool.p, pool.q)

\* the table has been written after one worker ran the last slot and
\* another ran the first
C17_Witness ==
    /\ table # NoFile /\ keys # NoKeys
    /\ Len(table.r_pow_n_l) = TableSize
    /\ pool.on[TableSize] # pool.on[1]
    /\ \A i \in Slots : pool.result[i] = table.r_pow_n_l[i]

(***************************************************************************)
(* Two callers in generate_paillier_keypair(n_length, precompute=True) on  *)
(* one table path.  Each caller tests whether table.pkl exists, then       *)
(* either loads it or runs generate_keys (samples the primes and computes  *)
(* the table), writes table.pkl and returns its keys; nothing is held      *)
(* between the steps.  callers[i].wrote numbers the writes in their order. *)
(* Afterwards a later call of the same n_length loads the file into keys,  *)
(* one of the two callers encrypts x, and x is decrypted with keys; hist.k *)
(* is the caller that encrypted.                                           *)
(***************************************************************************)
Callers == {1, 2}

Waiting == [pc |-> "start", n_length |-> NoLength, p |-> 0, q |-> 0,
            wrote |-> 0, keys |-> NoKeys]

\* the bit lengths for which generate_keys can return more than one n
RaceLengths ==
    {L \in KeySizes(MaxGenBits) :
        \E a \in SampledPrimes(L), b \in SampledPrimes(L) : a[1] * a[2] # b[1] * b[2]}

\* a write that would keep a file already present
WrittenFileIfAbsent(file, c) ==
    IF file.tag = "present" THEN file
    ELSE [tag |-> "present", n_length |-> c.n_length, n |-> c.p * c.q,
          p |-> c.p, q |-> c.q, r_pow_n_l |-> BlindingTable(c.p, c.q)]

\* the file pickle.dump leaves at the table path: it replaces what was there
WrittenFile(file, c) ==
    [tag |-> "present", n_length |-> c.n_length, n |-> c.p * c.q,
     p |-> c.p, q |-> c.q, r_pow_n_l |-> BlindingTable(c.p, c.q)]

\* the keys generate_paillier_keypair constructs from a loaded table
LoadedKeys(file) ==
    LET public_key == PaillierPublicKey(file.n, file.r_pow_n_l, DefaultNLength)
    IN  [pub |-> public_key, priv |-> PaillierPrivateKey(public_key, file.p, file.q)]

InitRace ==
    /\ keys = NoKeys /\ keys2 = NoKeys
    /\ x = NoCipher /\ y = NoCipher /\ z = NoCipher
    /\ out = NoOut
    /\ hist = NoHist
    /\ table = NoFile /\ call = Idle /\ ret = NoRet /\ tot = NoTot
    /\ heap = EmptyHeap /\ pool = NoPool
    /\ \E n_length \in RaceLengths :
           callers = [i \in Callers |-> [Waiting EXCEPT !.n_length = n_length]]

Others == <<keys, keys2, x, y, z, out, hist, call, ret, tot, heap, pool>>

\* os.path.exists(table.pkl)
Exists(i) ==
    /\ callers[i].pc = "start"
    /\ callers' = [callers EXCEPT
                     ![i].pc = IF table.tag = "present" THEN "load" ELSE "generate"]
    /\ UNCHANGED <<table, Others>>

\* the file is opened and unpickled; keys of the recorded n_length are
\* constructed from it, another n_length is generated anew
Load(i) ==
    /\ callers[i].pc = "load"
    /\ callers' = IF table.n_length # callers[i].n_length
                  THEN [callers EXCEPT ![i].pc = "generate"]
                  ELSE [callers EXCEPT ![i].pc = "done", ![i].keys = LoadedKeys(table)]
    /\ UNCHANGED <<table, Others>>

\* generate_keys up to the open of the table file: primes and table
Generate(i) ==
    /\ callers[i].pc = "generate"
    /\ \E pq \in SampledPrimes(callers[i].n_length) :
           /\ pq[1] < pq[2]
           /\ callers' = [callers EXCEPT ![i].pc = "write", ![i].p = pq[1],
                                         ![i].q = pq[2]]
    /\ UNCHANGED <<table, Others>>

\* pickle.dump(table, f), and generate_keys returns
Write(i) ==
    /\ callers[i].pc = "write"
    /\ table' = WrittenFile(table, callers[i])
    /\ callers' = [callers EXCEPT
                     ![i].pc = "done",
                     ![i].wrote = 1 + Cardinality({j \in Callers : callers[j].wrote > 0}),
                     ![i].keys = GeneratedKeys(callers[i].p, callers[i].q,
                                               callers[i].n_length, TRUE)]
    /\ UNCHANGED Others

\* a later generate_paillier_keypair of the same n_length
LaterCall ==
    /\ \A i \in Callers : callers[i].pc = "done"
    /\ keys = NoKeys
    /\ table.tag = "present" /\ \A i \in Callers : table.n_length = callers[i].n_length
    /\ keys' = LoadedKeys(table)
    /\ UNCHANGED <<keys2, x, y, z, out, hist, KeyGen, heap, pool, callers>>

\* caller i encrypts with the public key it was returned
EncryptBy(i) ==
    /\ keys # NoKeys /\ x = NoCipher
    /\ \E v \in 0..MaxPlain :
           /\ x' = encrypt(callers[i].keys.pub, v, 0, NoRValue,
                        FirstDraw(callers[i].keys.pub))
           /\ hist' = [NoHist EXCEPT !.vx = v, !.k = i]
    /\ UNCHANGED <<keys, keys2, y, z, out, KeyGen, heap, pool, callers>>

NextRace ==
    \/ \E i \in Callers : Exists(i)
    \/ \E i \in Callers : Load(i)
    \/ \E i \in Callers : Generate(i)
    \/ \E i \in Callers : Write(i)
    \/ LaterCall
    \/ \E i \in Callers : EncryptBy(i)
    \/ Decrypt(1, "x")

SpecRace == InitRace /\ [][NextRace]_vars

\* the callers that wrote the table file
Writers == {i \in Callers : callers[i].wrote > 0}

LastWriter == CHOOSE i \in Writers : \A j \in Writers : callers[j].wrote <= callers[i].wrote

\* C18: with no lock on the table path both callers can find no file,
\* generate and write; the file left is the one written last, a caller
\* whose write came earlier holds keys of another (n, p, q), the later
\* call loads the keys of the file, and those decrypt the ciphertexts of a
\* caller exactly when that caller's n is the n of the file
C18_TablePathRace ==
    /\ Writers # {} =>
           /\ table = WrittenFile(NoFile, callers[LastWriter])
           /\ table.n = callers[LastWriter].keys.pub.n
    /\ keys # NoKeys => keys.pub.n = table.n /\ keys.priv.tag = "PaillierPrivateKey"
    /\ out.tag # "none" =>
           IF callers[hist.k].keys.pub.n = keys.pub.n
           THEN IsValue(out, hist.vx, 0)
           ELSE out.tag = "ValueError: different key"

\* both callers wrote, the first writer was returned another (n, p, q) than
\* the file holds, and the keys loaded later did not decrypt its ciphertext
C18_Witness ==
    /\ Writers = Callers
    /\ \E i \in Callers :
           /\ callers[i].wrote = 1
           /\ <<callers[i].keys.pub.n, callers[i].p, callers[i].q>>
                  # <<table.n, table.p, table.q>>
           /\ hist.k = i /\ out.tag = "ValueError: different key"

(***************************************************************************)
(* The caller encrypts one plaintext twice under one key, each time with   *)
(* an r_value of its choice: x and y are the EncryptedNumbers that         *)
(* encrypt returns, or the integers that raw_encrypt returns.  hist holds  *)
(* the plaintext (vx), the r_value of the first call (k) and of the        *)
(* second (with), and what the random sources returned to the first call   *)
(* (draw) and to the second (by).                                          *)
(***************************************************************************)
RValues == {NoRValue} \cup 1..MaxScalar

EncPlaintexts == 0..MaxPlain

\* x = public_key.encrypt(v, r_value=r)
EncryptRValue ==
    /\ x.tag = "none"
    /\ \E v \in EncPlaintexts, r \in RValues, rnd \in Draws(keys.pub) :
           /\ x' = encrypt(keys.pub, v, 0, r, rnd)
           /\ hist' = [NoHist EXCEPT !.op = "encrypt", !.vx = v, !.k = r, !.draw = rnd]
    /\ UNCHANGED <<y, z, out, Session, KeyGen>>

\* y = public_key.encrypt(v, r_value=r) for the same v
EncryptRValueAgain ==
    /\ hist.op = "encrypt" /\ y.tag = "none"
    /\ \E r \in RValues, rnd \in Draws(keys.pub) :
           /\ y' = encrypt(keys.pub, hist.vx, 0, r, rnd)
           /\ hist' = [hist EXCEPT !.op = "encrypt twice", !.with = r, !.by = rnd]
    /\ UNCHANGED <<x, z, out, Session, KeyGen>>

\* x = public_key.raw_encrypt(v, r_value=r)
RawEncryptRValue ==
    /\ x.tag = "none"
    /\ \E v \in EncPlaintexts, r \in RValues, rnd \in Draws(keys.pub) :
           /\ x' = IntResult(raw_encrypt(keys.pub, v, r, rnd))
           /\ hist' = [NoHist EXCEPT !.op = "raw_encrypt", !.vx = v, !.k = r,
                                     !.draw = rnd]
    /\ UNCHANGED <<y, z, out, Session, KeyGen>>

\* y = public_key.raw_encrypt(v, r_value=r) for the same v
RawEncryptRValueAgain ==
    /\ hist.op = "raw_encrypt" /\ y.tag = "none"
    /\ \E r \in RValues, rnd \in Draws(keys.pub) :
           /\ y' = IntResult(raw_encrypt(keys.pub, hist.vx, r, rnd))
           /\ hist' = [hist EXCEPT !.op = "raw_encrypt twice", !.with = r, !.by = rnd]
    /\ UNCHANGED <<x, z, out, Session, KeyGen>>

NextEnc ==
    \/ EncryptRValue
    \/ EncryptRValueAgain
    \/ RawEncryptRValue
    \/ RawEncryptRValueAgain
    \/ Reset

SpecEnc == InitVec /\ [][NextEnc]_vars

EncryptedTwice == hist.op \in {"encrypt twice", "raw_encrypt twice"}

\* C19: two calls of raw_encrypt, or of encrypt, with the same key, the same
\* plaintext and the same r_value that is not None return the same
\* ciphertext
C19_RValue ==
    EncryptedTwice /\ hist.k # NoRValue /\ hist.with = hist.k => y = x

\* what the two calls return depends on what the random sources returned
\* to them and on no r_value
C19_RValueIgnored ==
    EncryptedTwice /\ hist.by = hist.draw => y = x

(***************************************************************************)
(* The blinding table of a short key: the table has 16384 slots whatever   *)
(* n_length the caller asks for, so for short keys the slot indices reach  *)
(* past p and q.  The caller generates keys with precompute, generates     *)
(* again from the same primes, encrypts and decrypts.                      *)
(***************************************************************************)
NoBase == -1    \* base=None

\* range(16384): slot i + 1 is computed for base i
SlotBases(size) == [i \in 1..size |-> i - 1]

\* the slots for which pow_mod_n2 calls rand_int_bits: base is None
RandomSlots(bases) == {i \in 1..Len(bases) : bases[i] = NoBase}

\* pool.map(pow_mod_n2_new, range(size))
TableOfSize(p, q, size) ==
    With(invert(q * q, p * p),
         LAMBDA qsquare_inv :
             [i \in 1..size |->
                 pow_mod_n2(SlotBases(size)[i], p * q, p * p, q * q, qsquare_inv)])

\* what generate_keys(n_length, precompute=True) returns for the sampled p, q
WideKeys(p, q, n_length) ==
    With(PaillierPublicKey(p * q, TableOfSize(p, q, WideTableSize), n_length),
         LAMBDA public_key :
             [pub |-> public_key, priv |-> PaillierPrivateKey(public_key, p, q)])

\* randint(1, 16383), noise times
WideDraws == [1..NOISE -> 1..(WideTableSize - 1)]

NoTableHist == [op |-> "none", p |-> 0, q |-> 0, rand_int_bits |-> 0,
                v |-> 0, idx |-> <<>>, obfuscator |-> 0]

InitTable ==
    /\ keys = NoKeys /\ keys2 = NoKeys
    /\ x = NoCipher /\ y = NoCipher /\ z = NoCipher
    /\ out = NoOut
    /\ hist = NoTableHist
    /\ table = NoFile /\ call = Idle /\ ret = NoRet /\ tot = NoTot
    /\ heap = EmptyHeap /\ pool = NoPool /\ callers = NoCallers

\* keys = generate_keys(L, precompute=True), the loop leaving p, q
GenerateWide ==
    /\ keys = NoKeys
    /\ \E L \in KeySizes(MaxBits) : \E pq \in SampledPrimes(L) :
           /\ keys' = WideKeys(pq[1], pq[2], L)
           /\ hist' = [NoTableHist EXCEPT
                         !.op = "generate", !.p = pq[1], !.q = pq[2],
                         !.rand_int_bits =
                             Cardinality(RandomSlots(SlotBases(WideTableSize)))]
    /\ UNCHANGED <<keys2, x, y, z, out, Objects, KeyGen>>

\* a second generation whose loop leaves the same primes, in either order
GenerateWideAgain ==
    /\ keys # NoKeys /\ keys2 = NoKeys
    /\ \E pq \in {<<hist.p, hist.q>>, <<hist.q, hist.p>>} :
           keys2' = WideKeys(pq[1], pq[2], keys.pub.n_length)
    /\ UNCHANGED <<keys, x, y, z, out, hist, Objects, KeyGen>>

\* x = public_key.encrypt(v), raw_encrypt drawing the indices idx
EncryptWide ==
    /\ keys # NoKeys /\ x.tag = "none"
    /\ \E v \in Plaintexts(keys.pub), idx \in WideDraws :
           /\ x' = encrypt(keys.pub, v, 0, NoRValue, [idx |-> idx, r |-> 0])
           /\ hist' = [hist EXCEPT
                         !.op = "encrypt", !.v = v, !.idx = idx,
                         !.obfuscator = TableObfuscator(keys.pub, idx, keys.pub.noise)]
    /\ UNCHANGED <<keys, keys2, y, z, out, Objects, KeyGen>>

\* private_key.decrypt(x)
DecryptWide ==
    /\ x.tag = "EncryptedNumber" /\ out.tag = "none"
    /\ out' = decrypt(keys, x)
    /\ UNCHANGED <<keys, keys2, x, y, z, hist, Objects, KeyGen>>

\* the caller drops the ciphertext
ResetWide ==
    /\ x.tag # "none"
    /\ x' = NoCipher /\ out' = NoOut
    /\ hist' = [hist EXCEPT !.op = "generate", !.v = 0, !.idx = <<>>,
                            !.obfuscator = 0]
    /\ UNCHANGED <<keys, keys2, y, z, Objects, KeyGen>>

NextTable ==
    \/ GenerateWide
    \/ GenerateWideAgain
    \/ EncryptWide
    \/ DecryptWide
    \/ ResetWide

SpecTable == InitTable /\ [][NextTable]_vars

\* slot i holds i^n mod n^2, slot 0 holds 0 and slot 1 holds 1; a second
\* generation from the same primes gives the same table; rand_int_bits is
\* never called; raw_encrypt draws no index 0
TableDeterministic ==
    keys # NoKeys =>
        /\ Len(keys.pub.r_pow_n_l) = WideTableSize
        /\ \A i \in 1..WideTableSize :
               keys.pub.r_pow_n_l[i] = powmod(i - 1, keys.pub.n, keys.pub.nsquare)
        /\ keys.pub.r_pow_n_l[1] = 0 /\ keys.pub.r_pow_n_l[2] = 1
        /\ keys2 # NoKeys => keys2.pub.r_pow_n_l = keys.pub.r_pow_n_l
        /\ hist.rand_int_bits = 0
        /\ hist.op = "encrypt" => \A j \in 1..NOISE : hist.idx[j] # 0

\* C21: the blinding table is a deterministic function of the primes (slot i
\* holds i^n mod n^2, two generations from the same primes give identical
\* tables, rand_int_bits is never called), raw_encrypt never uses slot 0,
\* and so it never produces a zero obfuscator
C21_BlindingTable ==
    /\ TableDeterministic
    /\ hist.op = "encrypt" => hist.obfuscator # 0

\* the table is that function of the primes and slot 0 is never used; the
\* obfuscator is zero exactly when the indices drawn include a multiple of
\* p and a multiple of q, and it is a unit when they include neither
C21_ZeroObfuscator ==
    /\ TableDeterministic
    /\ hist.op = "encrypt" =>
           /\ hist.obfuscator = 0 <=>
                  /\ \E j \in 1..NOISE : hist.idx[j] % keys.priv.p = 0
                  /\ \E j \in 1..NOISE : hist.idx[j] % keys.priv.q = 0
           /\ (\A j \in 1..NOISE : gcd(hist.idx[j], keys.pub.n) = 1)
                  => gcd(hist.obfuscator, keys.pub.n) = 1

\* an encryption under a key whose primes lie within the table has drawn
\* the slots of p and of q
C21_ZeroDrawn ==
    /\ hist.op = "encrypt" /\ hist.obfuscator = 0 /\ x.tag = "EncryptedNumber"
    /\ out.tag # "none"

(***************************************************************************)
(* Indexing a vector: the residues of an EncryptedVector are kept in a     *)
(* storage object, a numpy array after encrypt_new and a Python list after *)
(* an addition.  The heap holds the storage objects; x is the parent, y    *)
(* the vector indexing returned, and each names the storage it reads with  *)
(* the offset and length of its window.                                    *)
(***************************************************************************)
Storage(kind, data) == [tag |-> kind, data |-> data]

Window(at, off, len) == [at |-> at, off |-> off, len |-> len]

\* the residues a vector reads through its window
Residues(h, v) ==
    [i \in 1..v.ciphertext.len |-> h[v.ciphertext.at].data[v.ciphertext.off + i]]

\* EncryptedVector(n, nsquare, max_int, ciphertext, exponent) with ciphertext
\* a storage object made by this call: np.array(..) or a list
Stored(h, self, kind, data) ==
    [heap |-> [h EXCEPT ![Fresh(h)] = Storage(kind, data)],
     ret  |-> EncryptedVector(self.n, self.nsquare, self.max_int,
                              Window(Fresh(h), 0, Len(data)), self.exponent),
     tag  |-> "ok"]

ViewRaised(h, name) == [heap |-> h, ret |-> Raise(name), tag |-> name]

\* a[start:stop] takes the indices from lo up to hi
SliceBound(i, len) ==
    IF i < 0 THEN (IF i + len < 0 THEN 0 ELSE i + len) ELSE Min2(i, len)

\* __getitem__(item) for an int item: np.array([self.ciphertext[item]])
view_getitem(h, self, item) ==
    IF item >= self.ciphertext.len \/ item < -self.ciphertext.len
    THEN ViewRaised(h, "IndexError")
    ELSE Stored(h, self, "ndarray",
                <<Residues(h, self)[IF item < 0 THEN item + self.ciphertext.len + 1
                                    ELSE item + 1]>>)

\* __getitem__(slice(start, stop)): self.ciphertext[item] is a view of a
\* numpy array (the same memory) and a copy of a list
view_getslice(h, self, start, stop) ==
    With(SliceBound(start, self.ciphertext.len),
         LAMBDA lo :
             With(IF SliceBound(stop, self.ciphertext.len) > lo
                  THEN SliceBound(stop, self.ciphertext.len) - lo ELSE 0,
                  LAMBDA count :
                      IF h[self.ciphertext.at].tag = "ndarray"
                      THEN [heap |-> h,
                            ret  |-> EncryptedVector(self.n, self.nsquare, self.max_int,
                                         Window(self.ciphertext.at,
                                                self.ciphertext.off + lo, count),
                                         self.exponent),
                            tag  |-> "ok"]
                      ELSE Stored(h, self, "list",
                                  [i \in 1..count |-> Residues(h, self)[lo + i]])))

\* __setitem__(key, value): self.ciphertext[key] = value
view_setitem(h, self, key, value) ==
    IF key >= self.ciphertext.len \/ key < -self.ciphertext.len
    THEN ViewRaised(h, "IndexError")
    ELSE [heap |-> [h EXCEPT ![self.ciphertext.at].data[
                        self.ciphertext.off
                            + (IF key < 0 THEN key + self.ciphertext.len + 1
                               ELSE key + 1)] = value],
          ret  |-> self,
          tag  |-> "ok"]

NoViewHist == [op |-> "none", how |-> "none", storage |-> "none", on |-> "none",
               key |-> 0, tag |-> "none", x_before |-> <<>>, y_before |-> <<>>]

InitView ==
    /\ keys \in HeapKeys
    /\ keys2 = NoKeys
    /\ x = NoCipher /\ y = NoCipher /\ z = NoCipher
    /\ out = NoOut
    /\ hist = NoViewHist
    /\ table = NoFile /\ call = Idle /\ ret = NoRet /\ tot = NoTot
    /\ heap = EmptyHeap /\ pool = NoPool /\ callers = NoCallers

ViewFrame == <<keys, keys2, out, pool, callers, KeyGen>>

ViewItems == (-VecLen - 1)..VecLen

\* x = public_key.encrypt_new(vs)
ViewEncryptNew ==
    /\ x.tag = "none"
    /\ \E vs \in [1..VecLen -> 0..MaxPlain] :
           With(encrypt_new(keys.pub, vs, 0, [i \in 1..VecLen |-> FirstDraw(keys.pub)]),
                LAMBDA c :
                    /\ heap' = Stored(heap, c, "ndarray", c.ciphertext).heap
                    /\ x' = Stored(heap, c, "ndarray", c.ciphertext).ret)
    /\ hist' = [NoViewHist EXCEPT !.op = "encrypt_new", !.storage = "ndarray"]
    /\ UNCHANGED <<y, z, ViewFrame>>

\* x = x + x: the sum keeps its residues in a list
ViewAdd ==
    /\ hist.op = "encrypt_new"
    /\ With(vec_add_encrypted([x EXCEPT !.ciphertext = Residues(heap, x)],
                              [x EXCEPT !.ciphertext = Residues(heap, x)]),
            LAMBDA c :
                /\ heap' = Stored(heap, c, "list", c.ciphertext).heap
                /\ x' = Stored(heap, c, "list", c.ciphertext).ret)
    /\ z' = x
    /\ hist' = [hist EXCEPT !.op = "add", !.storage = "list"]
    /\ UNCHANGED <<y, ViewFrame>>

\* y = x[item]
ViewGetItem ==
    /\ hist.op \in {"encrypt_new", "add"}
    /\ \E item \in ViewItems :
           /\ heap' = view_getitem(heap, x, item).heap
           /\ y' = view_getitem(heap, x, item).ret
           /\ hist' = [hist EXCEPT !.op = "getitem", !.how = "int", !.key = item,
                                   !.tag = view_getitem(heap, x, item).tag]
    /\ UNCHANGED <<x, z, ViewFrame>>

\* y = x[start:stop]
ViewGetSlice ==
    /\ hist.op \in {"encrypt_new", "add"}
    /\ \E start \in ViewItems, stop \in ViewItems :
           /\ heap' = view_getslice(heap, x, start, stop).heap
           /\ y' = view_getslice(heap, x, start, stop).ret
           /\ hist' = [hist EXCEPT !.op = "getitem", !.how = "slice",
                                   !.key = SliceBound(start, x.ciphertext.len),
                                   !.tag = view_getslice(heap, x, start, stop).tag]
    /\ UNCHANGED <<x, z, ViewFrame>>

\* x[key] = value or y[key] = value
ViewSetItem ==
    /\ hist.op = "getitem" /\ hist.tag = "ok"
    /\ \E on \in {"x", "y"}, key \in ViewItems, value \in 0..MaxPlain :
           With(view_setitem(heap, IF on = "x" THEN x ELSE y, key, value),
                LAMBDA set :
                    /\ heap' = set.heap
                    /\ hist' = [hist EXCEPT !.op = "setitem", !.on = on,
                                            !.tag = set.tag,
                                            !.x_before = Residues(heap, x),
                                            !.y_before = Residues(heap, y)])
    /\ UNCHANGED <<x, y, z, ViewFrame>>

\* the caller drops its vectors
ViewReset ==
    /\ x.tag # "none"
    /\ x' = NoCipher /\ y' = NoCipher /\ z' = NoCipher
    /\ heap' = EmptyHeap /\ hist' = NoViewHist
    /\ UNCHANGED ViewFrame

NextView ==
    \/ ViewEncryptNew
    \/ ViewAdd
    \/ ViewGetItem
    \/ ViewGetSlice
    \/ ViewSetItem
    \/ ViewReset

SpecView == InitView /\ [][NextView]_vars

Assigned == hist.op = "setitem" /\ hist.tag = "ok"

\* C22: a vector obtained by indexing (by integer or by slice) is
\* independent of its parent: item assignment on the sub-vector leaves every
\* residue of the parent unchanged and item assignment on the parent leaves
\* the sub-vector unchanged, for array storage and for list storage
C22_IndexIndependent ==
    Assigned =>
        /\ hist.on = "y" => Residues(heap, x) = hist.x_before
        /\ hist.on = "x" => Residues(heap, y) = hist.y_before

\* the vectors are independent after indexing by integer and after slicing
\* list storage; a slice of array storage reads the parent's memory, where
\* element i of the slice is element lo + i of the parent
C22_SliceShares ==
    /\ Assigned /\ (hist.how = "int" \/ hist.storage = "list") =>
           /\ hist.on = "y" => Residues(heap, x) = hist.x_before
           /\ hist.on = "x" => Residues(heap, y) = hist.y_before
    /\ hist.op \in {"getitem", "setitem"} /\ hist.tag = "ok"
           /\ hist.how = "slice" /\ hist.storage = "ndarray" =>
           \A i \in 1..Len(Residues(heap, y)) :
               Residues(heap, y)[i] = Residues(heap, x)[hist.key + i]

\* an item of a slice of array storage was assigned and the parent changed
C22_ParentChanged ==
    /\ Assigned /\ hist.on = "y" /\ hist.how = "slice" /\ hist.storage = "ndarray"
    /\ Residues(heap, x) # hist.x_before

(***************************************************************************)
(* A vector and a plain scalar: __add__, __radd__, __sub__ and __rsub__    *)
(* of EncryptedVector with an int operand                                  *)
(***************************************************************************)
\* _add_encoded_scalar(encoded): one sum for every element of the encoded
\* operand
vec_add_encoded_scalar(self, encoded) ==
    IF self.n # encoded.n THEN Raise("ValueError: different keys")
    ELSE With(IF self.exponent > encoded.exponent
              THEN vec_decrease_exponent_to(self, encoded.exponent) ELSE self,
              LAMBDA a :
                  IF a.tag # "EncryptedVector" THEN a
                  ELSE With(vec_raw_encrypt(a,
                                (IF self.exponent < encoded.exponent
                                 THEN EncodedVectorDecreaseExponentTo(encoded, self.exponent)
                                 ELSE encoded).encoding),
                            LAMBDA encrypted_scalar :
                                Zip(a, a.ciphertext, encrypted_scalar,
                                    Len(encrypted_scalar))))

\* _add_scalar(scalar): scalar = np.array([scalar]) is encoded as a vector
\* of one element
vec_add_scalar(self, scalar) ==
    With(encode_vector(self.n, self.max_int, <<scalar>>, self.exponent),
         LAMBDA encoded :
             IF encoded.tag # "EncodedVector" THEN Raise("ValueError: out of range")
             ELSE vec_add_encoded_scalar(self, encoded))

\* EncryptedVector.__add__(self, other)
vec_add(self, other) ==
    IF other.tag = "EncryptedVector" THEN vec_add_encrypted(self, other)
    ELSE IF other.tag = "EncodedVector" THEN vec_add_encoded(self, other)
    ELSE vec_add_scalar(self, other.v)

\* EncryptedVector.__radd__(self, other)
vec_radd(self, other) == vec_add(self, other)

\* EncryptedVector.__sub__(self, other) for an int other: self + (other * -1)
vec_sub(self, other) == vec_add(self, IntOperand(other.v * (-1)))

\* EncryptedVector.__rsub__(self, other): other + (self * -1); the int other
\* hands the sum over to __radd__ of the product, whose __add__ takes the
\* branch of _add_scalar
vec_rsub(self, other) ==
    With(VecMul(self, IntOperand(-1)),
         LAMBDA negated :
             IF negated.tag # "EncryptedVector" THEN negated
             ELSE vec_add_scalar(negated, other.v))

\* the vectors encrypted, of every length up to VecLen
ScalarVectors ==
    UNION {[1..len -> (-MaxVecPlain)..MaxVecPlain] : len \in 1..VecLen}

\* x = public_key.encrypt_new(vs)
EncryptNewLen ==
    /\ x.tag = "none"
    /\ \E vs \in ScalarVectors, e \in EncExps :
           /\ x' = encrypt_new(keys.pub, vs, e, [i \in 1..Len(vs) |-> FirstDraw(keys.pub)])
           /\ hist' = [hist EXCEPT !.vx = vs, !.ex = e]
    /\ UNCHANGED <<y, z, out, Session, KeyGen>>

\* z = x + k for a vector x
VecAddScalar(k) ==
    /\ x.tag = "EncryptedVector"
    /\ Operation("x + k", k, vec_add(x, IntOperand(k)))

\* z = k + x for a vector x
VecRAddScalar(k) ==
    /\ x.tag = "EncryptedVector"
    /\ Operation("k + x", k, vec_radd(x, IntOperand(k)))

\* z = x - k for a vector x
VecSubScalar(k) ==
    /\ x.tag = "EncryptedVector"
    /\ Operation("x - k", k, vec_sub(x, IntOperand(k)))

\* z = k - x for a vector x
VecRSubScalar(k) ==
    /\ x.tag = "EncryptedVector"
    /\ Operation("k - x", k, vec_rsub(x, IntOperand(k)))

NextScalar ==
    \/ EncryptNewLen
    \/ \E k \in Scalars : VecAddScalar(k)
    \/ \E k \in Scalars : VecRAddScalar(k)
    \/ \E k \in Scalars : VecSubScalar(k)
    \/ \E k \in Scalars : VecRSubScalar(k)
    \/ \E k \in Scalars : VecMulScalar(k)
    \/ DecryptNew(1, "z")
    \/ Reset

SpecScalar == InitVec /\ [][NextScalar]_vars

ScalarOps == {"x + k", "k + x", "x - k", "k - x"}

\* element v of x and the scalar k of the call, as the mantissa of the
\* result at the exponent of x
WithScalar(v) ==
    IF hist.op = "x - k" THEN v - (hist.k * Pow(BASE, -hist.ex))
    ELSE IF hist.op = "k - x" THEN (hist.k * Pow(BASE, -hist.ex)) - v
    ELSE v + (hist.k * Pow(BASE, -hist.ex))

\* C23: addition preserves vector length: for a vector of length L, x + s,
\* s + x, x - s and s - x return a vector of length L that decrypts to the
\* elements of x with s added to every one
C23_AddScalarLength ==
    hist.op \in ScalarOps /\ z.tag = "EncryptedVector" =>
        /\ Len(z.ciphertext) = Len(hist.vx)
        /\ (DecryptedZ /\ \A i \in 1..Len(hist.vx) : InRange(WithScalar(hist.vx[i]))) =>
               out = [Decoded("value", [i \in 1..Len(hist.vx) |-> WithScalar(hist.vx[i])],
                              hist.ex) EXCEPT !.of = "z"]

\* the sum with a scalar has one element, the first of x with s added,
\* whatever the length of x; the product with a scalar has the length of x
C23_FirstElementOnly ==
    /\ hist.op \in ScalarOps /\ z.tag = "EncryptedVector" =>
           /\ Len(z.ciphertext) = 1
           /\ DecryptedZ /\ InRange(WithScalar(hist.vx[1])) =>
                  out = [Decoded("value", <<WithScalar(hist.vx[1])>>, hist.ex)
                            EXCEPT !.of = "z"]
    /\ hist.op = "x * k" /\ z.tag = "EncryptedVector" =>
           Len(z.ciphertext) = Len(hist.vx)

\* a sum of a vector of two elements or more and a scalar was decrypted
C23_ShortSum ==
    /\ hist.op \in ScalarOps /\ z.tag = "EncryptedVector" /\ DecryptedZ
    /\ Len(hist.vx) > 1 /\ Len(out.mant) = 1

====
